---- MODULE Spec2Model ----
(***************************************************************************)
(* Model of the text-generation functions of cvickery/transfer_statistics: *)
(* the grade formatter (_grade in query.py and build_rule_descriptions.py),*)
(* the list joiners (and_list, andor_list, oxfordize), the rule            *)
(* description composer (format_rule), the department lookup               *)
(* (destination_department) and the course flags.                          *)
(*                                                                         *)
(* Representation.  A Python str is a sequence of one-character strings,   *)
(* so that count / rfind / replace / strip work on characters as they do   *)
(* in the source.  A GPA is an integer number of tenths (0.7 is 7, 4.0 is  *)
(* 40); a credit value is an integer number of half credits (3.0 is 6),    *)
(* values that binary floating point adds and compares exactly.            *)
(* A call that raises is a result record whose raised field names the      *)
(* exception.  The objects that outlive a call (the rule objects a caller  *)
(* holds, the dictionaries built when a module is imported) are in mem.    *)
(***************************************************************************)
EXTENDS Integers, Sequences, FiniteSets, TLC

VARIABLES pc, arg, res, mem

vars == <<pc, arg, res, mem>>

\* The value of res before a call has returned or raised.
NoResult == [raised |-> "pending"]

\* mem holds the objects that outlive a call: the rules a caller keeps and the
\* module-level dictionaries.  The functions that read none have NoMem.
NoMem == [log |-> <<>>]

-----------------------------------------------------------------------------
(* Bounds of the model *)

\* GPA inputs range over -GpaBelow/10 .. GpaAbove/10 in steps of 0.1.
GpaBelow == 50
GpaAbove == 50

\* The list joiners are called with lists of at most MaxItems items.
MaxItems == 3

\* A rule has at most MaxCourses sending and at most MaxCourses receiving courses.
MaxCourses == 2

-----------------------------------------------------------------------------
(* Python str and list primitives *)

\* s[i] with Python's index rules: 0-based, negative indexes count from the end.
HasIndex(s, i) == (0 - Len(s)) <= i /\ i < Len(s)

PyIndex(s, i) == IF i >= 0 THEN s[i + 1] ELSE s[Len(s) + i + 1]

\* s starts with pat at (1-based) position i.
MatchAt(s, pat, i) ==
  /\ i + Len(pat) - 1 <= Len(s)
  /\ \A k \in 1..Len(pat) : s[i + k - 1] = pat[k]

\* str.replace(old, new) for a non-empty old: the occurrences of old are taken
\* left to right and do not overlap.
RECURSIVE ReplaceFrom(_, _, _, _)
ReplaceFrom(s, old, new, i) ==
  IF \E m \in i..Len(s) : MatchAt(s, old, m)
  THEN LET m == CHOOSE m \in i..Len(s) :
                  MatchAt(s, old, m) /\ \A n \in i..(m - 1) : ~MatchAt(s, old, n)
       IN  SubSeq(s, i, m - 1) \o new \o ReplaceFrom(s, old, new, m + Len(old))
  ELSE SubSeq(s, i, Len(s))

Replace(s, old, new) == ReplaceFrom(s, old, new, 1)

\* str.count(c) for a one-character c.
Count(s, c) == Cardinality({i \in 1..Len(s) : s[i] = c})

\* str.rfind(c) for a one-character c: the 0-based index of the last c, or -1.
RFind(s, c) ==
  IF \E i \in 1..Len(s) : s[i] = c
  THEN (CHOOSE i \in 1..Len(s) : s[i] = c /\ \A j \in (i + 1)..Len(s) : s[j] # c) - 1
  ELSE 0 - 1

\* sep.join(items)
RECURSIVE Join(_, _)
Join(sep, items) ==
  IF Len(items) = 0 THEN <<>>
  ELSE IF Len(items) = 1 THEN items[1]
  ELSE items[1] \o sep \o Join(sep, Tail(items))

\* str.strip(chars): drop leading and trailing characters that are in chars.
RECURSIVE LStrip(_, _)
LStrip(s, chars) ==
  IF Len(s) > 0 /\ s[1] \in chars THEN LStrip(Tail(s), chars) ELSE s

RECURSIVE RStrip(_, _)
RStrip(s, chars) ==
  IF Len(s) > 0 /\ s[Len(s)] \in chars THEN RStrip(SubSeq(s, 1, Len(s) - 1), chars) ELSE s

Strip(s, chars) == RStrip(LStrip(s, chars), chars)

\* s contains pat as a substring.
Contains(s, pat) == \E i \in 1..Len(s) : MatchAt(s, pat, i)

\* s ends with pat.
EndsWith(s, pat) == Len(pat) <= Len(s) /\ MatchAt(s, pat, Len(s) - Len(pat) + 1)

-----------------------------------------------------------------------------
(* _grade: the letter table and the index int(round(3 * gpa)) *)

\* Mutant: an exact half is rounded up.
RoundHalfUpOverTen(n) == IF n % 10 < 5 THEN n \div 10 ELSE (n \div 10) + 1

\* int(round(gpa * 3)) for a GPA of g tenths.  Python's round() rounds an exact
\* half to the even integer; 3 * g / 10 is an exact half only when g / 10 is
\* 0.5, 1.5, 2.5, ..., which floating point represents exactly.
RoundHalfEvenOverTen(n) ==
  LET q == n \div 10
      r == n % 10
  IN  IF r < 5 THEN q
      ELSE IF r > 5 THEN q + 1
      ELSE IF q % 2 = 0 THEN q ELSE q + 1

LetterIndex(g) == RoundHalfEvenOverTen(3 * g)

\* query.py: the letter table and the "canonical form" of the two bounds.
query_letters ==
  << <<"F">>, <<"F">>, <<"D", "-">>, <<"D">>, <<"D", "+">>, <<"C", "-">>, <<"C">>,
     <<"C", "+">>, <<"B", "-">>, <<"B">>, <<"B", "+">>, <<"A", "-">>, <<"A">>,
     <<"A", "+">> >>

\* Mutant: the floor is set to D (1.0) instead of D- (0.7).
query_norm_min_floor_D(min_gpa) == IF min_gpa < 10 THEN 10 ELSE min_gpa

query_norm_min(min_gpa) == IF min_gpa < 10 THEN 7 ELSE min_gpa

query_norm_max(max_gpa) == IF max_gpa > 40 THEN 40 ELSE max_gpa

\* build_rule_descriptions.py: the same table and canonical form.
build_letters ==
  << <<"F">>, <<"F">>, <<"D", "-">>, <<"D">>, <<"D", "+">>, <<"C", "-">>, <<"C">>,
     <<"C", "+">>, <<"B", "-">>, <<"B">>, <<"B", "+">>, <<"A", "-">>, <<"A">>,
     <<"A", "+">> >>

\* Mutant: a minimum below 1.0 becomes 0.0.
build_norm_min_zero(min_gpa) == IF min_gpa < 10 THEN 0 ELSE min_gpa

build_norm_min(min_gpa) == IF min_gpa < 10 THEN 7 ELSE min_gpa

\* Mutant: the maximum is not capped at 4.0.
build_norm_max_uncapped(max_gpa) == max_gpa

build_norm_max(max_gpa) == IF max_gpa > 40 THEN 40 ELSE max_gpa

\* Result records of _grade.  rule is the number of the return statement taken
\* (0 when the call raised before classification); min_gpa and max_gpa are the
\* values of the two local variables when the call ended.
GradeReturn(rule, text, mn, mx) ==
  [raised |-> "none", rule |-> rule, text |-> text, min_gpa |-> mn, max_gpa |-> mx]

GradeRaise(exc, rule, mn, mx) ==
  [raised |-> exc, rule |-> rule, text |-> <<>>, min_gpa |-> mn, max_gpa |-> mx]

\* query.py: the four return statements after normalization, and the fallback.
query_classify(mn, mx) ==
  IF mn < 10 /\ mx > 37
    THEN GradeReturn(1, <<"a", "n", "y", " ", "p", "a", "s", "s", "s", "i", "n", "g",
                          " ", "g", "r", "a", "d", "e">>, mn, mx)
  ELSE IF mn >= 7 /\ mx >= 37
    THEN IF HasIndex(query_letters, LetterIndex(mn))
           THEN GradeReturn(2, PyIndex(query_letters, LetterIndex(mn))
                               \o <<" ", "o", "r", " ", "a", "b", "o", "v", "e">>, mn, mx)
           ELSE GradeRaise("IndexError", 2, mn, mx)
  ELSE IF mn > 7 /\ mx < 37
    THEN IF HasIndex(query_letters, LetterIndex(mn)) /\ HasIndex(query_letters, LetterIndex(mx))
           THEN GradeReturn(3, <<"b", "e", "t", "w", "e", "e", "n", " ">>
                               \o PyIndex(query_letters, LetterIndex(mn))
                               \o <<" ", "a", "n", "d", " ">>
                               \o PyIndex(query_letters, LetterIndex(mx)), mn, mx)
           ELSE GradeRaise("IndexError", 3, mn, mx)
  ELSE IF mx < 37
    THEN IF HasIndex(query_letters, LetterIndex(mx))
           THEN GradeReturn(4, <<"b", "e", "l", "o", "w", " ">>
                               \o PyIndex(query_letters, LetterIndex(mx)), mn, mx)
           ELSE GradeRaise("IndexError", 4, mn, mx)
  ELSE GradeReturn(5, <<"a", "n", "y", " ", "p", "a", "s", "s", "i", "n", "g",
                        " ", "g", "r", "a", "d", "e">>, mn, mx)

\* Mutant: the assertion is skipped and a reversed pair is classified.
query_grade_unchecked(min_gpa, max_gpa) ==
  query_classify(query_norm_min(min_gpa), query_norm_max(max_gpa))

\* query.py _grade: the assertion, the normalization, the classification.
query_grade(min_gpa, max_gpa) ==
  IF ~(min_gpa <= max_gpa) THEN GradeRaise("AssertionError", 0, min_gpa, max_gpa)
  ELSE query_classify(query_norm_min(min_gpa), query_norm_max(max_gpa))

\* build_rule_descriptions.py: the same classification with its own phrases.
build_classify(mn, mx) ==
  IF mn < 10 /\ mx > 37
    THEN GradeReturn(1, <<"P", "a", "s", "s">>, mn, mx)
  ELSE IF mn >= 7 /\ mx >= 37
    THEN IF HasIndex(build_letters, LetterIndex(mn))
           THEN GradeReturn(2, PyIndex(build_letters, LetterIndex(mn))
                               \o <<" ", "o", "r", " ", "a", "b", "o", "v", "e">>, mn, mx)
           ELSE GradeRaise("IndexError", 2, mn, mx)
  ELSE IF mn > 7 /\ mx < 37
    THEN IF HasIndex(build_letters, LetterIndex(mn)) /\ HasIndex(build_letters, LetterIndex(mx))
           THEN GradeReturn(3, <<"B", "e", "t", "w", "e", "e", "n", " ">>
                               \o PyIndex(build_letters, LetterIndex(mn))
                               \o <<" ", "a", "n", "d", " ">>
                               \o PyIndex(build_letters, LetterIndex(mx)), mn, mx)
           ELSE GradeRaise("IndexError", 3, mn, mx)
  ELSE IF mx < 37
    THEN IF HasIndex(build_letters, LetterIndex(mx))
           THEN GradeReturn(4, <<"B", "e", "l", "o", "w", " ">>
                               \o PyIndex(build_letters, LetterIndex(mx)), mn, mx)
           ELSE GradeRaise("IndexError", 4, mn, mx)
  ELSE GradeReturn(5, <<"P", "a", "s", "s">>, mn, mx)

\* build_rule_descriptions.py _grade.
build_grade(min_gpa, max_gpa) ==
  IF ~(min_gpa <= max_gpa) THEN GradeRaise("AssertionError", 0, min_gpa, max_gpa)
  ELSE build_classify(build_norm_min(min_gpa), build_norm_max(max_gpa))

-----------------------------------------------------------------------------
(* Specification of the grade formatter: one call of either copy of _grade *)
(* on an input pair drawn from the GPA grid.                               *)

Gpa10 == (0 - GpaBelow)..GpaAbove

GradeInputs == [min_gpa : Gpa10, max_gpa : Gpa10]

InitGrade ==
  /\ pc = "ready"
  /\ arg \in GradeInputs
  /\ res = NoResult
  /\ mem = NoMem

CallQueryGrade ==
  /\ pc = "ready"
  /\ pc' = "query._grade"
  /\ res' = query_grade(arg.min_gpa, arg.max_gpa)
  /\ UNCHANGED <<arg, mem>>

CallBuildGrade ==
  /\ pc = "ready"
  /\ pc' = "build._grade"
  /\ res' = build_grade(arg.min_gpa, arg.max_gpa)
  /\ UNCHANGED <<arg, mem>>

NextGrade == CallQueryGrade \/ CallBuildGrade

SpecGrade == InitGrade /\ [][NextGrade]_vars

GradeCalled == pc \in {"query._grade", "build._grade"}

-----------------------------------------------------------------------------
(* Claims about the grade formatter, checked under SpecGrade *)

LetterSet == {query_letters[i] : i \in 1..Len(query_letters)}

OrAbove == <<" ", "o", "r", " ", "a", "b", "o", "v", "e">>

\* The phrases of the four forms, in the wording of either copy.
PassingPhrases ==
  { <<"a", "n", "y", " ", "p", "a", "s", "s", "i", "n", "g", " ", "g", "r", "a", "d", "e">>,
    <<"a", "n", "y", " ", "p", "a", "s", "s", "s", "i", "n", "g", " ", "g", "r", "a", "d", "e">>,
    <<"P", "a", "s", "s">> }

BelowWords == { <<"b", "e", "l", "o", "w", " ">>, <<"B", "e", "l", "o", "w", " ">> }

BetweenWords ==
  { <<"b", "e", "t", "w", "e", "e", "n", " ">>, <<"B", "e", "t", "w", "e", "e", "n", " ">> }

IsGradeForm(text) ==
  \/ text \in PassingPhrases
  \/ \E w \in BelowWords, x \in LetterSet : text = w \o x
  \/ \E w \in BetweenWords, x \in LetterSet, y \in LetterSet :
       text = w \o x \o <<" ", "a", "n", "d", " ">> \o y
  \/ \E x \in LetterSet : text = x \o OrAbove

ValidPair == arg.min_gpa <= arg.max_gpa

\* C1: for every pair with min_gpa <= max_gpa, out-of-range values included,
\* _grade does not raise and returns one of the four forms with letters of the
\* table.  The code raises IndexError when round(3 * min_gpa) > 13 (min_gpa 4.5)
\* or round(3 * max_gpa) < -14.
C1_GradeNeverRaises ==
  (GradeCalled /\ ValidPair) => (res.raised = "none" /\ IsGradeForm(res.text))

\* C2 as stated: (0.5, 1.5) gives 'between D- and D', and every valid input
\* with min_gpa < 1.0 and max_gpa < 3.7 gives a 'between D- and ...' phrase.
C2_BetweenAsClaimed ==
  (GradeCalled /\ ValidPair /\ arg.min_gpa < 10 /\ arg.max_gpa < 37) =>
     /\ (res.raised = "none") =>
          \E w \in BetweenWords, y \in LetterSet :
            res.text = w \o <<"D", "-">> \o <<" ", "a", "n", "d", " ">> \o y
     /\ (arg.min_gpa = 5 /\ arg.max_gpa = 15) =>
          \E w \in BetweenWords :
            res.text = w \o <<"D", "-">> \o <<" ", "a", "n", "d", " ">> \o <<"D">>

\* C2 amended: a valid input with min_gpa < 1.0 and max_gpa < 3.7 has its
\* min_gpa normalized to 0.7 and is classified by the 'below' rule (the fourth
\* return): the phrase is 'below' followed by the letter at index
\* round(3 * max_gpa), 'below D+' for (0.5, 1.5), and never a 'between' phrase;
\* the call raises only when that index is outside the table.
C2_BelowRule ==
  (GradeCalled /\ ValidPair /\ arg.min_gpa < 10 /\ arg.max_gpa < 37) =>
     /\ res.rule = 4
     /\ res.min_gpa = 7
     /\ res.max_gpa = arg.max_gpa
     /\ (res.raised # "none") <=> ~HasIndex(query_letters, LetterIndex(arg.max_gpa))
     /\ (res.raised = "none") =>
          \E w \in BelowWords :
            res.text = w \o PyIndex(query_letters, LetterIndex(arg.max_gpa))
     /\ (arg.min_gpa = 5 /\ arg.max_gpa = 15) =>
          \E w \in BelowWords : res.text = w \o <<"D", "+">>

C2_Witness ==
  /\ pc = "query._grade"
  /\ arg = [min_gpa |-> 5, max_gpa |-> 15]
  /\ res.raised = "none"
  /\ res.text = <<"b", "e", "l", "o", "w", " ", "D", "+">>

\* C3: for every valid input with min_gpa < 1.0 and max_gpa > 3.7 the copy in
\* query.py returns exactly 'any passing grade', the string of its fallback:
\* the return statement that the classification reaches when none of the
\* four rules holds, as for the bounds 0.5 and 3.7 taken as they are.
C3_AnyPassingGrade ==
  (pc = "query._grade" /\ ValidPair /\ arg.min_gpa < 10 /\ arg.max_gpa > 37) =>
     /\ res.raised = "none"
     /\ query_classify(5, 37).rule = 5
     /\ res.text = query_classify(5, 37).text
     /\ res.text = <<"a", "n", "y", " ", "p", "a", "s", "s", "i", "n", "g",
                     " ", "g", "r", "a", "d", "e">>

\* C4: a call with min_gpa > max_gpa fails with AssertionError before any
\* normalization or classification: no phrase, no return statement reached,
\* and the two bounds neither swapped nor clamped.
C4_AssertBeforeNormalize ==
  (GradeCalled /\ arg.min_gpa > arg.max_gpa) =>
     /\ res.raised = "AssertionError"
     /\ res.text = <<>>
     /\ res.rule = 0
     /\ res.min_gpa = arg.min_gpa
     /\ res.max_gpa = arg.max_gpa

\* A reversed pair whose bounds normalization would both have changed.
C4_Witness ==
  /\ GradeCalled
  /\ arg.min_gpa > arg.max_gpa
  /\ arg.min_gpa < 10
  /\ res.raised = "AssertionError"

\* C5: every valid input whose normalized min_gpa is >= 1.0 and normalized
\* max_gpa is >= 3.7 returns '{letter} or above' with the table entry at index
\* round(3 * min_gpa); (2.0, 4.0) gives 'C or above'.  The code raises
\* IndexError instead when min_gpa is 4.5 or more (the defect of C1).
C5_OrAbove ==
  (GradeCalled /\ ValidPair /\ query_norm_min(arg.min_gpa) >= 10
      /\ query_norm_max(arg.max_gpa) >= 37) =>
     /\ res.raised = "none"
     /\ \E i \in 1..Len(query_letters) :
          /\ i = LetterIndex(arg.min_gpa) + 1
          /\ res.text = query_letters[i] \o OrAbove
     /\ (arg.min_gpa = 20 /\ arg.max_gpa = 40) => res.text = <<"C">> \o OrAbove

-----------------------------------------------------------------------------
(* The list joiners *)

\* A list item is a str, or (oxfordize only) a tuple of strs.
StrItem(s) == [tuple |-> FALSE, str |-> s]

TupleItem(parts) == [tuple |-> TRUE, parts |-> parts]

AllStr(items) == \A i \in 1..Len(items) : ~items[i].tuple

StrsOf(items) == [i \in 1..Len(items) |-> items[i].str]

ListReturn(text) == [raised |-> "none", text |-> text]

ListRaise(exc) == [raised |-> exc, text |-> <<>>]

\* Python slices s[:k] and s[k:] for 0 <= k <= len(s).
SliceTo(s, k) == SubSeq(s, 1, k)

SliceFrom(s, k) == SubSeq(s, k + 1, Len(s))

\* str.lower() on the ASCII letters.
UpperCase == <<"A", "B", "C", "D", "E", "F", "G", "H", "I", "J", "K", "L", "M",
               "N", "O", "P", "Q", "R", "S", "T", "U", "V", "W", "X", "Y", "Z">>

LowerCase == <<"a", "b", "c", "d", "e", "f", "g", "h", "i", "j", "k", "l", "m",
               "n", "o", "p", "q", "r", "s", "t", "u", "v", "w", "x", "y", "z">>

LowerChar(c) ==
  IF \E i \in 1..Len(UpperCase) : UpperCase[i] = c
  THEN LowerCase[CHOOSE i \in 1..Len(UpperCase) : UpperCase[i] = c]
  ELSE c

Lower(s) == [i \in 1..Len(s) |-> LowerChar(s[i])]

\* build_rule_descriptions.py andor_list, for a list of strs.
andor_list(items, andor) ==
  LET joined == Join(<<",", " ">>, items)
      k == RFind(joined, ",")
      withConj == IF k > 0
                  THEN SliceTo(joined, k + 1) \o <<" ">> \o andor \o SliceFrom(joined, k + 1)
                  ELSE joined
  IN  IF Count(withConj, ",") = 1 THEN Replace(withConj, <<",">>, <<>>) ELSE withConj

\* query.py and_list, for a list of strs.
and_list(items) ==
  IF Len(items) = 0 THEN <<>>
  ELSE IF Len(items) = 1 THEN items[1]
  ELSE IF Len(items) = 2 THEN items[1] \o <<" ", "a", "n", "d", " ">> \o items[2]
  ELSE Join(<<",", " ">>, SubSeq(items, 1, Len(items) - 1))
         \o <<",", " ", "a", "n", "d", " ">> \o items[Len(items)]

\* destination_departments.py oxfordize: the element of the joined sentence
\* that stands for one item of source_list.
oxfordize_item(q) ==
  IF q.tuple THEN Join(<<" ">>, q.parts)
  ELSE Replace(q.str, <<",">>, <<"_", "_", "$", "_", "_">>)

\* destination_departments.py oxfordize.
oxfordize(source_list, list_type) ==
  LET sentence == Join(<<",", " ">>,
                       [i \in 1..Len(source_list) |-> oxfordize_item(source_list[i])])
      comma_count == Count(sentence, ",")
      conjunction_str == <<" ">> \o list_type
  IN  IF comma_count # 0
      THEN IF Lower(list_type) \notin { <<"a", "n", "d">>, <<"o", "r">> }
             THEN ListRaise("AssertionError")
           ELSE IF comma_count = 1
             THEN ListReturn(Replace(sentence, <<",">>, conjunction_str))
           ELSE LET last_comma == RFind(sentence, ",") + 1
                IN  ListReturn(SliceTo(sentence, last_comma) \o conjunction_str
                                 \o SliceFrom(sentence, last_comma))
      ELSE ListReturn(Replace(sentence, <<"_", "_", "$", "_", "_">>, <<",">>))

-----------------------------------------------------------------------------
(* Specification of the list joiners: one call of one joiner on a list of  *)
(* up to MaxItems items.                                                   *)

ItemChoices ==
  { StrItem(<<>>), StrItem(<<"A">>), StrItem(<<"B">>), StrItem(<<"A", ",", "B">>),
    StrItem(<<"C", ",", " ", "D">>), TupleItem(<< <<"E">>, <<"F">> >>) }

ListTypes == { <<"a", "n", "d">>, <<"o", "r">>, <<"O", "r">>, <<"n", "o", "r">> }

ItemLists == UNION { [1..n -> ItemChoices] : n \in 0..MaxItems }

InitList ==
  /\ pc = "ready"
  /\ arg \in [items : ItemLists, list_type : ListTypes]
  /\ res = NoResult
  /\ mem = NoMem

\* andor_list and and_list join strs: a tuple item is passed to oxfordize only.
CallAndorList ==
  /\ pc = "ready"
  /\ AllStr(arg.items)
  /\ pc' = "andor_list"
  /\ res' = ListReturn(andor_list(StrsOf(arg.items), arg.list_type))
  /\ UNCHANGED <<arg, mem>>

CallAndList ==
  /\ pc = "ready"
  /\ AllStr(arg.items)
  /\ pc' = "and_list"
  /\ res' = ListReturn(and_list(StrsOf(arg.items)))
  /\ UNCHANGED <<arg, mem>>

CallOxfordize ==
  /\ pc = "ready"
  /\ pc' = "oxfordize"
  /\ res' = oxfordize(arg.items, arg.list_type)
  /\ UNCHANGED <<arg, mem>>

NextList == CallAndorList \/ CallAndList \/ CallOxfordize

SpecList == InitList /\ [][NextList]_vars

-----------------------------------------------------------------------------
(* Claims about the list joiners, checked under SpecList *)

\* The list the specification describes: nothing for no item, the item for
\* one, 'a conj b' for two, and for three or more the items separated by ', '
\* with the conjunction after the last separator's comma.
RECURSIVE JoinAsSpecified(_, _)
JoinAsSpecified(items, conj) ==
  IF Len(items) = 0 THEN <<>>
  ELSE IF Len(items) = 1 THEN items[1]
  ELSE IF Len(items) = 2 THEN items[1] \o <<" ">> \o conj \o <<" ">> \o items[2]
  ELSE items[1] \o <<",", " ">>
         \o (IF Len(items) = 3
             THEN items[2] \o <<",", " ">> \o conj \o <<" ">> \o items[3]
             ELSE JoinAsSpecified(Tail(items), conj))

AndOr == { <<"a", "n", "d">>, <<"o", "r">> }

CommaFree(items) ==
  /\ AllStr(items)
  /\ \A i \in 1..Len(items) : Count(items[i].str, ",") = 0

HasCommaItem(items) ==
  /\ AllStr(items)
  /\ \E i \in 1..Len(items) : Count(items[i].str, ",") > 0

\* C6: when items contain commas, oxfordize returns the list as specified with
\* the items' own commas intact and no '__$__' placeholder left, for 1, 2 and
\* 3 or more items and either conjunction.  The code restores the commas only
\* on the path that finds no separator (0 or 1 items).
C6_OxfordizeKeepsCommas ==
  (pc = "oxfordize" /\ HasCommaItem(arg.items) /\ arg.list_type \in AndOr) =>
     /\ res.raised = "none"
     /\ ~Contains(res.text, <<"_", "_", "$", "_", "_">>)
     /\ res.text = JoinAsSpecified(StrsOf(arg.items), arg.list_type)

\* C7: on comma-free items andor_list, oxfordize and (for 'and') and_list all
\* return the list as specified, and so agree with each other.  andor_list
\* drops the conjunction of a two-item list whose first item is empty.
C7_JoinersAgree ==
  (CommaFree(arg.items) /\ arg.list_type \in AndOr) =>
     /\ pc \in {"andor_list", "oxfordize"} =>
          /\ res.raised = "none"
          /\ res.text = JoinAsSpecified(StrsOf(arg.items), arg.list_type)
     /\ pc = "and_list" =>
          res.text = JoinAsSpecified(StrsOf(arg.items), <<"a", "n", "d">>)

-----------------------------------------------------------------------------
(* format_rule (build_rule_descriptions.py) *)

Range(f) == {f[i] : i \in DOMAIN f}

\* The names cached from cuny_institutions when the script starts.
institution_names ==
  [code \in {"QCC01", "QNS01"} |->
     IF code = "QCC01" THEN <<"Q", "C", "C">> ELSE <<"Q", "N", "S">>]

\* str(n) for a natural number n.
RECURSIVE IntStr(_)
IntStr(n) ==
  LET digits == <<"0", "1", "2", "3", "4", "5", "6", "7", "8", "9">>
  IN  IF n < 10 THEN <<digits[n + 1]>> ELSE IntStr(n \div 10) \o <<digits[(n % 10) + 1]>>

\* f'{x}' for a float x of h half credits (h >= 0): '7.0', '1.5'.
FloatStr(h) == IntStr(h \div 2) \o <<".">> \o (IF h % 2 = 0 THEN <<"0">> ELSE <<"5">>)

RuleRaise(exc, where) ==
  [raised |-> exc, where |-> where, text |-> <<>>]

\* Mutant: duplicate ids go unnoticed.
has_duplicates_ignored(ids) == FALSE

\* len(set(ids)) != len(ids)
has_duplicates(ids) == Cardinality(Range(ids)) # Len(ids)

\* sum of float(course.<field>) over a list of courses, starting from 0.0.
RECURSIVE SumMinCredits(_)
SumMinCredits(courses) ==
  IF courses = <<>> THEN 0
  ELSE courses[1].min_credits + SumMinCredits(Tail(courses))

RECURSIVE SumMaxCredits(_)
SumMaxCredits(courses) ==
  IF courses = <<>> THEN 0
  ELSE courses[1].max_credits + SumMaxCredits(Tail(courses))

\* The (min_gpa, max_gpa) tuples of a list of courses, and Python's order on them.
GradeKey(course) == <<course.min_gpa, course.max_gpa>>

KeyLess(a, b) == a[1] < b[1] \/ (a[1] = b[1] /\ a[2] < b[2])

\* by_grade_keys: the keys of courses_by_grade, sorted.
RECURSIVE SortedKeys(_)
SortedKeys(keys) ==
  IF keys = {} THEN <<>>
  ELSE LET least == CHOOSE k \in keys : \A other \in keys \ {k} : KeyLess(k, other)
       IN  <<least>> \o SortedKeys(keys \ {least})

by_grade_keys(source_courses) ==
  SortedKeys({GradeKey(source_courses[i]) : i \in 1..Len(source_courses)})

\* courses_by_grade[key]: the courses with that key, in their order in the rule.
IsKey(course, key) == GradeKey(course) = key

RECURSIVE courses_by_grade(_, _)
courses_by_grade(source_courses, key) ==
  IF source_courses = <<>> THEN <<>>
  ELSE (IF IsKey(source_courses[1], key) THEN <<source_courses[1]>> ELSE <<>>)
         \o courses_by_grade(Tail(source_courses), key)

\* courses.sort(key=lambda c: c.cat_num): a stable sort.
RECURSIVE sort_by_cat_num(_)
sort_by_cat_num(courses) ==
  IF courses = <<>> THEN <<>>
  ELSE LET first == CHOOSE i \in 1..Len(courses) :
                      /\ \A j \in 1..Len(courses) : courses[i].cat_num <= courses[j].cat_num
                      /\ \A j \in 1..(i - 1) : courses[j].cat_num # courses[i].cat_num
           others == [j \in 1..(Len(courses) - 1) |->
                        IF j < first THEN courses[j] ELSE courses[j + 1]]
       IN  <<courses[first]>> \o sort_by_cat_num(others)

\* f'{course.discipline} {course.catalog_number}' for each course of a list.
course_labels(courses) ==
  [i \in 1..Len(courses) |-> courses[i].discipline \o <<" ">> \o courses[i].catalog_number]

\* Mutant: the courses of a key are listed in the order of the rule.
grade_clause_unsorted(grade_text, courses) ==
  LET grade_str == IF grade_text # <<"P", "a", "s", "s">>
                   THEN grade_text \o <<" ", "i", "n", " ">>
                   ELSE grade_text
  IN  grade_str \o <<" ">> \o andor_list(course_labels(courses), <<"a", "n", "d">>)

\* One pass of the loop over by_grade_keys: the text the key adds to
\* source_course_list, given the string _grade returned for it.
grade_clause(grade_text, courses) ==
  LET grade_str == IF grade_text # <<"P", "a", "s", "s">>
                   THEN grade_text \o <<" ", "i", "n", " ">>
                   ELSE grade_text
  IN  grade_str \o <<" ">>
        \o andor_list(course_labels(sort_by_cat_num(courses)), <<"a", "n", "d">>)

\* The loop over by_grade_keys: [raised, text] with the first exception that
\* _grade raises, or the finished source_course_list.
RECURSIVE source_clauses(_, _)
source_clauses(keys, source_courses) ==
  IF keys = <<>> THEN [raised |-> "none", text |-> <<>>]
  ELSE LET g == build_grade(keys[1][1], keys[1][2])
           rest == source_clauses(Tail(keys), source_courses)
       IN  IF g.raised # "none" THEN [raised |-> g.raised, text |-> <<>>]
           ELSE IF rest.raised # "none" THEN rest
           ELSE [raised |-> "none",
                 text |-> grade_clause(g.text, courses_by_grade(source_courses, keys[1]))
                            \o rest.text]

\* One pass of the loop over destination_courses.  The loop variable that is
\* compared with course.discipline is the function's local discipline, which
\* is '' from before the loop and is never assigned in it.
destination_step(acc, course) ==
  LET discipline == <<>>
      credits == IF course.is_bkcr THEN acc.destination_credits
                 ELSE acc.destination_credits + course.transfer_credits
      has_bkcr == acc.has_bkcr \/ course.is_bkcr
      closed == IF acc.destination_course_list # <<>>
                THEN Strip(acc.destination_course_list, {"/"}) \o <<";", " ">>
                ELSE acc.destination_course_list
      list == IF discipline # course.discipline
              THEN Strip(closed, {"/", " "}) \o course.discipline \o <<"-">>
              ELSE acc.destination_course_list
  IN  [destination_credits |-> credits,
       has_bkcr |-> has_bkcr,
       destination_course_list |-> list \o course.catalog_number]

RECURSIVE destination_loop(_, _)
destination_loop(acc, destination_courses) ==
  IF destination_courses = <<>> THEN acc
  ELSE destination_loop(destination_step(acc, destination_courses[1]),
                        Tail(destination_courses))

\* Mutant: the total is set to the sending sum whenever there is a BKCR course.
credits_with_bkcr_always(destination_credits, min_source_credits, has_bkcr) ==
  IF has_bkcr THEN min_source_credits ELSE destination_credits

\* "Credits match if there is BKCR": destination_credits after the adjustment.
credits_with_bkcr(destination_credits, min_source_credits, has_bkcr) ==
  IF destination_credits < min_source_credits /\ has_bkcr
  THEN min_source_credits
  ELSE destination_credits

source_credits_str(min_source_credits, max_source_credits) ==
  IF min_source_credits # max_source_credits
  THEN FloatStr(min_source_credits) \o <<"-">> \o FloatStr(max_source_credits)
  ELSE FloatStr(min_source_credits)

\* format_rule(rule, rule_key).  The result of a call that returns carries the
\* description (text) and the values of the locals it was built from.
\* Line 245 splits rule.source_disciplines, a str of every rule, into a local
\* that nothing reads afterwards.
format_rule(rule) ==
  LET source_courses == rule.source_courses
      destination_courses == rule.destination_courses
      source_course_ids == [i \in 1..Len(source_courses) |-> source_courses[i].course_id]
      destination_course_ids ==
        [i \in 1..Len(destination_courses) |-> destination_courses[i].course_id]
  IN
  IF has_duplicates(source_course_ids)
    THEN RuleRaise("AssertionError", "source_course_ids")
  ELSE IF has_duplicates(destination_course_ids)
    THEN RuleRaise("AssertionError", "destination_course_ids")
  ELSE
  LET min_source_credits == SumMinCredits(source_courses)
      max_source_credits == SumMaxCredits(source_courses)
      source_side == source_clauses(by_grade_keys(source_courses), source_courses)
  IN
  IF source_side.raised # "none" THEN RuleRaise(source_side.raised, "_grade")
  ELSE
  LET source_course_list == source_side.text
      looped == destination_loop([destination_credits |-> 0, has_bkcr |-> FALSE,
                                  destination_course_list |-> <<>>], destination_courses)
      destination_course_list ==
        Replace(Strip(looped.destination_course_list, {"/"}), <<";">>, <<" ", "a", "n", "d", " ">>)
      destination_credits ==
        credits_with_bkcr(looped.destination_credits, min_source_credits, looped.has_bkcr)
  IN
  IF rule.source_institution \notin DOMAIN institution_names
    THEN RuleRaise("KeyError", "source_institution")
  ELSE IF rule.destination_institution \notin DOMAIN institution_names
    THEN RuleRaise("KeyError", "destination_institution")
  ELSE
  LET description ==
        source_course_list \o <<" ", "a", "t", " ">>
          \o institution_names[rule.source_institution]
          \o <<" ", "(">> \o source_credits_str(min_source_credits, max_source_credits)
          \o <<" ", "c", "r", ")", " ", "t", "r", "a", "n", "s", "f", "e", "r", "s", " ", "t", "o", " ">>
          \o institution_names[rule.destination_institution]
          \o <<" ", "a", "s", " ">> \o destination_course_list
          \o <<" ", "(">> \o FloatStr(destination_credits) \o <<" ", "c", "r", ")">>
  IN  [raised |-> "none", where |-> "",
       text |-> Replace(description, <<"P", "a", "s", "s">>,
                        <<"P", "a", "s", "s", "i", "n", "g", " ", "g", "r", "a", "d", "e", " ", "i", "n">>),
       min_source_credits |-> min_source_credits,
       max_source_credits |-> max_source_credits,
       has_bkcr |-> looped.has_bkcr,
       destination_credits |-> destination_credits]

-----------------------------------------------------------------------------
(* Specification of the composer: one call of format_rule on a rule whose  *)
(* two course lists are drawn from small catalogs.                         *)

SourceCourse(id, disc, cat, num, minc, maxc, ming, maxg) ==
  [course_id |-> id, discipline |-> disc, catalog_number |-> cat, cat_num |-> num,
   min_credits |-> minc, max_credits |-> maxc, min_gpa |-> ming, max_gpa |-> maxg]

DestinationCourse(id, disc, cat, credits, bkcr) ==
  [course_id |-> id, discipline |-> disc, catalog_number |-> cat,
   transfer_credits |-> credits, is_bkcr |-> bkcr]

\* MAT 2 (3.0 cr, any passing grade), MAT 1 (4.0 cr, C or above),
\* PHY 1 (3.0-4.0 cr, any passing grade), a second offer of course 1,
\* and a course whose GPA bounds are reversed.
SourceCatalog ==
  { SourceCourse(1, <<"M", "A", "T">>, <<"2">>, 2, 6, 6, 7, 40),
    SourceCourse(2, <<"M", "A", "T">>, <<"1">>, 1, 8, 8, 20, 40),
    SourceCourse(3, <<"P", "H", "Y">>, <<"1">>, 1, 6, 8, 7, 40),
    SourceCourse(1, <<"P", "H", "Y">>, <<"2">>, 2, 6, 6, 20, 40),
    SourceCourse(4, <<"P", "H", "Y">>, <<"3">>, 3, 6, 6, 30, 20) }

\* BIO 1 (3.0 cr), BIO 2 (4.0 cr), a blanket-credit course, a second offer of
\* course 11 (1.5 cr).
DestinationCatalog ==
  { DestinationCourse(11, <<"B", "I", "O">>, <<"1">>, 6, FALSE),
    DestinationCourse(12, <<"B", "I", "O">>, <<"2">>, 8, FALSE),
    DestinationCourse(13, <<"E", "L", "E", "C">>, <<"9">>, 0, TRUE),
    DestinationCourse(11, <<"C", "H", "M">>, <<"3">>, 3, FALSE) }

SourceLists == UNION { [1..n -> SourceCatalog] : n \in 0..MaxCourses }

DestinationLists == UNION { [1..n -> DestinationCatalog] : n \in 0..MaxCourses }

\* The institutions of a rule: both named, or one missing from institution_names.
InstitutionPairs == { <<"QCC01", "QNS01">>, <<"XXX01", "QNS01">>, <<"QCC01", "XXX01">> }

Rules ==
  { [source_institution |-> p[1], destination_institution |-> p[2],
     source_courses |-> sc, destination_courses |-> dc] :
       p \in InstitutionPairs, sc \in SourceLists, dc \in DestinationLists }

InitRule ==
  /\ pc = "ready"
  /\ arg \in Rules
  /\ res = NoResult
  /\ mem = NoMem

CallFormatRule ==
  /\ pc = "ready"
  /\ pc' = "format_rule"
  /\ res' = format_rule(arg)
  /\ UNCHANGED <<arg, mem>>

NextRule == CallFormatRule

SpecRule == InitRule /\ [][NextRule]_vars

-----------------------------------------------------------------------------
(* Claims about format_rule, checked under SpecRule *)

RuleCalled == pc = "format_rule"

\* Two courses of the list carry the same course_id.
SameIdTwice(courses) ==
  \E i \in 1..Len(courses), j \in 1..Len(courses) :
    i # j /\ courses[i].course_id = courses[j].course_id

\* C8: format_rule fails with an assertion error and gives no description
\* whenever the sending set, or the receiving set, has two courses with the
\* same course_id; it never goes on with the duplicate dropped.
C8_DuplicateIdsRejected ==
  (RuleCalled /\ (SameIdTwice(arg.source_courses) \/ SameIdTwice(arg.destination_courses))) =>
     /\ res.raised = "AssertionError"
     /\ res.text = <<>>
     /\ res.where = (IF SameIdTwice(arg.source_courses)
                     THEN "source_course_ids" ELSE "destination_course_ids")

\* Two different sending courses that share a course_id, in a rule whose
\* receiving courses and institutions are in order.
C8_Witness ==
  /\ RuleCalled
  /\ \E i \in 1..Len(arg.source_courses), j \in 1..Len(arg.source_courses) :
       /\ arg.source_courses[i].course_id = arg.source_courses[j].course_id
       /\ arg.source_courses[i].discipline # arg.source_courses[j].discipline
  /\ ~SameIdTwice(arg.destination_courses)
  /\ Len(arg.destination_courses) > 0
  /\ arg.source_institution = "QCC01" /\ arg.destination_institution = "QNS01"
  /\ res.raised = "AssertionError"

\* The sum of transfer_credits over the receiving courses that are not BKCR.
RECURSIVE NonBlanketSum(_)
NonBlanketSum(courses) ==
  IF courses = <<>> THEN 0
  ELSE (IF courses[1].is_bkcr THEN 0 ELSE courses[1].transfer_credits)
         + NonBlanketSum(Tail(courses))

AnyBlanket(courses) == \E i \in 1..Len(courses) : courses[i].is_bkcr

RECURSIVE SendingMin(_)
SendingMin(courses) ==
  IF courses = <<>> THEN 0 ELSE courses[1].min_credits + SendingMin(Tail(courses))

RECURSIVE SendingMax(_)
SendingMax(courses) ==
  IF courses = <<>> THEN 0 ELSE courses[1].max_credits + SendingMax(Tail(courses))

CreditsShown(h) == <<" ", "(">> \o FloatStr(h) \o <<" ", "c", "r", ")">>

\* C9 as stated: whenever the total is raised because of a BKCR course, it
\* equals the sending credits shown in the sentence, also when the sending
\* courses have min_credits different from max_credits.
C9_RaisedEqualsShownSum ==
  (RuleCalled /\ res.raised = "none" /\ AnyBlanket(arg.destination_courses)
      /\ NonBlanketSum(arg.destination_courses) < SendingMin(arg.source_courses)) =>
     LET shown == IF SendingMin(arg.source_courses) # SendingMax(arg.source_courses)
                  THEN FloatStr(SendingMin(arg.source_courses)) \o <<"-">>
                         \o FloatStr(SendingMax(arg.source_courses))
                  ELSE FloatStr(SendingMin(arg.source_courses))
     IN  /\ Contains(res.text, <<" ", "(">> \o shown \o <<" ", "c", "r", ")", " ", "t">>)
         /\ EndsWith(res.text, <<" ", "(">> \o shown \o <<" ", "c", "r", ")">>)

\* C9 amended: the receiving total in the description is the sum of
\* transfer_credits over the non-BKCR receiving courses, except that with a
\* BKCR receiving course and that sum below the sum of the sending courses'
\* min_credits it is raised to the sum of min_credits (7.0 for sending credits
\* 3.0 and 4.0 and one BKCR course).  When min_credits and max_credits differ
\* the sentence shows the sending credits as 'min-max' and the raised total is
\* the lower end only.  Without a BKCR course the total is never raised.
C9_CreditTotal ==
  (RuleCalled /\ res.raised = "none") =>
     LET sum == NonBlanketSum(arg.destination_courses)
         low == SendingMin(arg.source_courses)
         total == IF AnyBlanket(arg.destination_courses) /\ sum < low THEN low ELSE sum
     IN  /\ res.destination_credits = total
         /\ EndsWith(res.text, CreditsShown(total))
         /\ ~AnyBlanket(arg.destination_courses) => EndsWith(res.text, CreditsShown(sum))
         /\ (low # SendingMax(arg.source_courses)) =>
              Contains(res.text, <<" ", "(">> \o FloatStr(low) \o <<"-">>
                                   \o FloatStr(SendingMax(arg.source_courses))
                                   \o <<" ", "c", "r", ")", " ", "t">>)

\* Sending credits 3.0 and 4.0, one BKCR receiving course and nothing else:
\* the description ends with (7.0 cr).
C9_Witness ==
  /\ RuleCalled
  /\ res.raised = "none"
  /\ Len(arg.source_courses) = 2
  /\ {arg.source_courses[1].min_credits, arg.source_courses[2].min_credits} = {6, 8}
  /\ Len(arg.destination_courses) = 1
  /\ arg.destination_courses[1].is_bkcr
  /\ EndsWith(res.text, <<" ", "(", "7", ".", "0", " ", "c", "r", ")">>)

\* C10: a rule with an empty sending set or an empty receiving set makes
\* format_rule raise.  The code has no such check and returns a description
\* with an empty clause and 0.0 credits.
C10_EmptySideRaises ==
  (RuleCalled /\ (arg.source_courses = <<>> \/ arg.destination_courses = <<>>)) =>
     res.raised # "none"


-----------------------------------------------------------------------------
(* Repeated calls of format_rule on rule objects the caller keeps.         *)

\* A caller makes at most MaxCalls calls.
MaxCalls == 3

\* The list objects are kept in a heap of references.  The lists of rule i
\* are <<"source_courses", i, 0>> and <<"destination_courses", i, 0>>; the
\* list that line 284 makes for a grade key is <<"courses_by_grade", min_gpa,
\* max_gpa>>.  A rule object holds references, and format_rule's locals
\* source_courses and destination_courses (lines 246-247) are the rule's own
\* references.

\* Mutant: courses names the rule's own list.
sort_target_source_courses(rule, key) == rule.source_courses

\* Line 296, courses = courses_by_grade[key]: the list that line 298 sorts in
\* place is the one made at line 284 for the key.
sort_target(rule, key) == <<"courses_by_grade", key[1], key[2]>>

\* The heap when format_rule(rule) has returned or raised.  A failed assert
\* (lines 252, 258) comes before any list is made.  Lines 281-285 make one
\* list per grade key and append references to the courses in the order of
\* the rule's list; the loop of line 292 sorts the list of each key in place
\* until _grade raises for a key or the keys are done; what follows only
\* reads.  When the call is over the lists it made are out of reach.
heap_after_call(heap, rule) ==
  LET source_courses == heap[rule.source_courses]
      destination_courses == heap[rule.destination_courses]
      keys == by_grade_keys(source_courses)
      made == [ref \in { <<"courses_by_grade", k[1], k[2]>> : k \in Range(keys) } |->
                 courses_by_grade(source_courses, <<ref[2], ref[3]>>)]
      grouped == made @@ heap
      passes == { n \in 1..Len(keys) :
                    \A j \in 1..n : build_grade(keys[j][1], keys[j][2]).raised = "none" }
      sorted == [ref \in DOMAIN grouped |->
                   IF \E n \in passes : sort_target(rule, keys[n]) = ref
                   THEN sort_by_cat_num(grouped[ref])
                   ELSE grouped[ref]]
  IN  IF \/ has_duplicates([i \in 1..Len(source_courses) |-> source_courses[i].course_id])
         \/ has_duplicates([i \in 1..Len(destination_courses) |->
                              destination_courses[i].course_id])
      THEN heap
      ELSE [ref \in DOMAIN heap |-> sorted[ref]]

\* The rules a caller holds: the first is any rule from QCC01 to QNS01 with
\* one receiving course, the second a rule that is described or one whose
\* sending institution has no name.
FirstRules ==
  { [source_institution |-> "QCC01", destination_institution |-> "QNS01",
     source_courses |-> sc, destination_courses |-> <<dc>>] :
       sc \in SourceLists, dc \in DestinationCatalog }

SecondRules ==
  { [source_institution |-> p, destination_institution |-> "QNS01",
     source_courses |-> << SourceCourse(2, <<"M", "A", "T">>, <<"1">>, 1, 8, 8, 20, 40) >>,
     destination_courses |-> << DestinationCourse(12, <<"B", "I", "O">>, <<"2">>, 8, FALSE) >>] :
       p \in {"QCC01", "XXX01"} }

\* mem.heap holds the lists, mem.rules the rule objects (their lists by
\* reference), mem.given the lists as the caller made them, mem.first[i] the
\* result of the first call on rule i, mem.log the rules called so far.
InitCalls ==
  /\ pc = "ready"
  /\ arg = 0
  /\ res = NoResult
  /\ \E r1 \in FirstRules, r2 \in SecondRules :
       LET given == <<r1, r2>>
       IN  mem = [log |-> <<>>,
                  heap |-> [ref \in { <<n, i, 0>> : n \in {"source_courses", "destination_courses"},
                                                    i \in 1..2 } |-> given[ref[2]][ref[1]]],
                  rules |-> [i \in 1..2 |->
                               [given[i] EXCEPT !.source_courses = <<"source_courses", i, 0>>,
                                                !.destination_courses = <<"destination_courses", i, 0>>]],
                  given |-> given,
                  first |-> <<NoResult, NoResult>>]

\* One call: the description is composed from the lists as they are in the
\* heap when the call is made.
CallFormatRuleOn(i) ==
  LET rule == mem.rules[i]
      described == format_rule([rule EXCEPT !.source_courses = mem.heap[@],
                                            !.destination_courses = mem.heap[@]])
  IN  /\ Len(mem.log) < MaxCalls
      /\ pc' = "format_rule"
      /\ arg' = i
      /\ res' = described
      /\ mem' = [mem EXCEPT !.log = Append(@, i),
                            !.heap = heap_after_call(@, rule),
                            !.first[i] = IF @ = NoResult THEN described ELSE @]

NextCalls == \E i \in 1..2 : CallFormatRuleOn(i)

SpecCalls == InitCalls /\ [][NextCalls]_vars

\* C11: every call on a rule gives the result its first call gave, whatever
\* calls on other rules came between, and after any calls the source_courses
\* and destination_courses of every rule are the lists the caller passed, in
\* contents and order.
C11_FormatRulePure ==
  (mem.log # <<>>) =>
    /\ res = mem.first[arg]
    /\ \A i \in 1..2 :
         /\ mem.heap[mem.rules[i].source_courses] = mem.given[i].source_courses
         /\ mem.heap[mem.rules[i].destination_courses] = mem.given[i].destination_courses

\* A rule whose two sending courses share a grade requirement and are listed
\* out of catalog-number order, so that the call sorts them, described a
\* second time after a call on the other rule.
C11_Witness ==
  /\ mem.log = <<1, 2, 1>>
  /\ res.raised = "none"
  /\ Len(mem.given[1].source_courses) = 2
  /\ GradeKey(mem.given[1].source_courses[1]) = GradeKey(mem.given[1].source_courses[2])
  /\ mem.given[1].source_courses[1].cat_num > mem.given[1].source_courses[2].cat_num

-----------------------------------------------------------------------------
(* destination_departments.py: the dictionaries built when the module is   *)
(* imported.                                                               *)

QNS01 == <<"Q", "N", "S", "0", "1">>
QCC01 == <<"Q", "C", "C", "0", "1">>
Admin == <<"A", "d", "m", "i", "n">>

\* One row of cuny_disciplines that passes the where clause of the query.
DisciplineRow(institution, department, discipline, cip_code, cuny_subject) ==
  [institution |-> institution, department |-> department, discipline |-> discipline,
   cip_code |-> cip_code, cuny_subject |-> cuny_subject]

\* rows = cursor.fetchall().  At QNS01 the CUNY subject MATH and the CIP area
\* 27 are offered by two departments (MTH and STA), the CIP area 40 by two
\* (CHM and PHY), the CIP area 26 by one (BIO); XYZ is a department that
\* cuny_departments does not list as active.  At QCC01 the discipline NOC has
\* an empty cip_code and NOT a CIP area without a title.
DisciplineRows ==
  << DisciplineRow(QNS01, <<"B", "I", "O">>, <<"B", "I", "O", "L">>, <<"2", "6", ".", "0", "1">>, <<"B", "I", "O", "L">>),
     DisciplineRow(QNS01, <<"C", "H", "M">>, <<"C", "H", "E", "M">>, <<"4", "0", ".", "0", "5">>, <<"C", "H", "E", "M">>),
     DisciplineRow(QNS01, <<"M", "T", "H">>, <<"M", "A", "T", "H">>, <<"2", "7", ".", "0", "1">>, <<"M", "A", "T", "H">>),
     DisciplineRow(QNS01, <<"S", "T", "A">>, <<"S", "T", "A", "T">>, <<"2", "7", ".", "0", "5">>, <<"M", "A", "T", "H">>),
     DisciplineRow(QNS01, <<"X", "Y", "Z">>, <<"X", "Y", "Z", "A">>, <<"5", "2", ".", "0", "1">>, <<"X", "Y", "Z", "A">>),
     DisciplineRow(QNS01, <<"P", "H", "Y">>, <<"P", "H", "Y", "S">>, <<"4", "0", ".", "0", "8">>, <<"P", "H", "Y", "S">>),
     DisciplineRow(QCC01, <<"M", "A">>, <<"M", "A", "T">>, <<"2", "7", ".", "0", "1">>, <<"M", "A", "T", "H">>),
     DisciplineRow(QCC01, <<"B", "I">>, <<"B", "I", "O">>, <<"2", "6", ".", "0", "1">>, <<"B", "I", "O", "L">>),
     DisciplineRow(QCC01, <<"E", "C">>, <<"E", "C", "O">>, <<"2", "6", ".", "1", "3">>, <<"E", "C", "O", "L">>),
     DisciplineRow(QCC01, <<"G", "E">>, <<"G", "E", "O">>, <<"4", "0", ".", "0", "6">>, <<"G", "E", "O", "L">>),
     DisciplineRow(QCC01, <<"A", "R">>, <<"A", "R", "T">>, <<"5", "0", ".", "0", "7">>, <<"A", "R", "T", "S">>),
     DisciplineRow(QCC01, <<"N", "C">>, <<"N", "O", "C">>, <<>>, <<"N", "O", "C", "S">>),
     DisciplineRow(QCC01, <<"N", "T">>, <<"N", "O", "T">>, <<"9", "9", ".", "0", "0">>, <<"N", "O", "T", "S">>) >>

\* The query has no order by: the rows may come in either order.
Reversed(rows) == [i \in 1..Len(rows) |-> rows[Len(rows) + 1 - i]]

RowOrders == { DisciplineRows, Reversed(DisciplineRows) }

\* s[0:2]
Slice02(s) == SubSeq(s, 1, IF Len(s) < 2 THEN Len(s) ELSE 2)

\* A dict comprehension over rows keeps, for each key, the value of the last
\* row that has the key.  keys[i] is the key of rows[i].
LastRow(rows, keys, k) ==
  rows[CHOOSE i \in 1..Len(rows) :
         /\ keys[i] = k
         /\ \A j \in (i + 1)..Len(rows) : keys[j] # k]

DisciplineKey(row) == <<row.institution, row.discipline>>
SubjectKey(row) == <<row.institution, row.cuny_subject>>
CipKey(row) == <<row.institution, Slice02(row.cip_code)>>

\* _disciplines = {(row.institution, row.discipline): row for row in rows}
disciplines_dict(rows) ==
  LET keys == [i \in 1..Len(rows) |-> DisciplineKey(rows[i])]
  IN  [k \in Range(keys) |-> LastRow(rows, keys, k)]

\* _cuny_subjects = {(row.institution, row.cuny_subject): row.department for row in rows}
cuny_subjects_dict(rows) ==
  LET keys == [i \in 1..Len(rows) |-> SubjectKey(rows[i])]
  IN  [k \in Range(keys) |-> LastRow(rows, keys, k).department]

\* _cip_codes = {(row.institution, row.cip_code[0:2]): row.department for row in rows}
cip_codes_dict(rows) ==
  LET keys == [i \in 1..Len(rows) |-> CipKey(rows[i])]
  IN  [k \in Range(keys) |-> LastRow(rows, keys, k).department]

\* _cip_area_names as the load leaves it: the titles of the CIP areas of
\* cip2020codes, already stripped and title-cased.  Area 99 has no row.
cip_area_names ==
  [c \in { <<"2", "6">>, <<"2", "7">>, <<"4", "0">>, <<"5", "0">>, <<"5", "2">> } |->
     IF c = <<"2", "6">> THEN <<"L", "i", "f", "e", " ", "S", "c", "i", "e", "n", "c", "e", "s">>
     ELSE IF c = <<"2", "7">> THEN <<"M", "a", "t", "h", "e", "m", "a", "t", "i", "c", "s">>
     ELSE IF c = <<"4", "0">> THEN <<"P", "h", "y", "s", "i", "c", "a", "l", " ", "S", "c", "i", "e", "n", "c", "e", "s">>
     ELSE IF c = <<"5", "0">> THEN <<"A", "r", "t", "s", ",", " ", "V", "i", "s", "u", "a", "l">>
     ELSE <<"B", "u", "s", "i", "n", "e", "s", "s">>]

\* _department_names: the active departments of cuny_departments.
department_names ==
  [k \in { <<QNS01, <<"B", "I", "O">>>>, <<QNS01, <<"C", "H", "M">>>>, <<QNS01, <<"M", "T", "H">>>>,
           <<QNS01, <<"S", "T", "A">>>>, <<QNS01, <<"P", "H", "Y">>>> } |->
     IF k[2] = <<"B", "I", "O">> THEN <<"B", "i", "o", "l", "o", "g", "y">>
     ELSE IF k[2] = <<"C", "H", "M">> THEN <<"C", "h", "e", "m", "i", "s", "t", "r", "y">>
     ELSE IF k[2] = <<"M", "T", "H">> THEN <<"M", "a", "t", "h", "e", "m", "a", "t", "i", "c", "s">>
     ELSE IF k[2] = <<"S", "T", "A">> THEN <<"S", "t", "a", "t", "i", "s", "t", "i", "c", "s">>
     ELSE <<"P", "h", "y", "s", "i", "c", "s">>]

-----------------------------------------------------------------------------
(* destination_department (destination_departments.py)                     *)

\* A Metadata namedtuple of shared_metadata.py.
Metadata(institution, course_str, is_ugrad, is_active, is_mesg, is_bkcr, is_unknown) ==
  [institution |-> institution, course_str |-> course_str, is_ugrad |-> is_ugrad,
   is_active |-> is_active, is_mesg |-> is_mesg, is_bkcr |-> is_bkcr,
   is_unknown |-> is_unknown]

\* course_str.split(' ')[0]
FirstWord(s) ==
  IF \E i \in 1..Len(s) : s[i] = " "
  THEN SubSeq(s, 1, (CHOOSE i \in 1..Len(s) : s[i] = " " /\ \A j \in 1..(i - 1) : s[j] # " ") - 1)
  ELSE s

\* rule_key[6:11]
Slice611(s) ==
  IF Len(s) <= 6 THEN <<>> ELSE SubSeq(s, 7, IF Len(s) < 11 THEN Len(s) ELSE 11)

\* The orders in which a set can be iterated.
Orders(S) == { q \in [1..Cardinality(S) -> S] : Range(q) = S }

\* Mutant: the items are joined with 'or' whatever list_type is.
OxfordizeStrs_or(q, list_type) ==
  oxfordize([i \in 1..Len(q) |-> StrItem(q[i])], <<"o", "r">>).text

\* oxfordize applied to the strs of a collection iterated in the order q.
\* With list_type 'and' or 'or' it does not raise.
OxfordizeStrs(q, list_type) ==
  oxfordize([i \in 1..Len(q) |-> StrItem(q[i])], list_type).text

\* The dict returned, and an exception that leaves the function.  path names
\* the part of the function that ended the call.
DeptReturn(rule_key, department, details, path) ==
  [raised |-> "none", rule_key |-> rule_key, department |-> department,
   details |-> details, path |-> path]

DeptRaise(exc, path) == [raised |-> exc, path |-> path]

\* Mutant: the department is given up whether or not it has a name.
one_department_not_found(m, rule_key, dest_institution, department, path) ==
  DeptReturn(rule_key, Admin, department \o <<" ", "n", "o", "t", " ", "f", "o", "u", "n", "d">>, path)

\* details = _department_names[dest_institution, department], or the
\* except KeyError clause: lines 178-185 and 201-207.
one_department(m, rule_key, dest_institution, department, path) ==
  IF <<dest_institution, department>> \in DOMAIN m.department_names
  THEN DeptReturn(rule_key, department, m.department_names[<<dest_institution, department>>], path)
  ELSE DeptReturn(rule_key, Admin, department \o <<" ", "n", "o", "t", " ", "f", "o", "u", "n", "d">>, path)

\* Lines 162-190: there are real receiving courses.
real_courses_case(m, rule_key, dest_institution, real_subjects) ==
  LET departments ==
        { m.disciplines[<<dest_institution, subj>>].department :
            subj \in { s \in real_subjects : <<dest_institution, s>> \in DOMAIN m.disciplines } }
  IN  IF departments = {}
        THEN { DeptReturn(rule_key, Admin,
                          <<"N", "o", " ", "d", "e", "p", "a", "r", "t", "m", "e", "n", "t", " ", "f", "o", "r", " ">> \o OxfordizeStrs(q, <<"o", "r">>), "real") :
                 q \in Orders(real_subjects) }
      ELSE IF Cardinality(departments) = 1
        THEN { one_department(m, rule_key, dest_institution,
                              CHOOSE d \in departments : TRUE, "real") }
      ELSE { DeptReturn(rule_key, Admin,
                        <<"M", "u", "l", "t", "i", "p", "l", "e", " ", "r", "e", "c", "e", "i", "v", "i", "n", "g", " ", "d", "e", "p", "a", "r", "t", "m", "e", "n", "t", "s", ":", " ">> \o OxfordizeStrs(q, <<"a", "n", "d">>),
                        "real") :
               q \in Orders(departments) }

\* Lines 230-269: no department offers a sending CUNY subject.  last_subject
\* is the value the loop of line 217 left in sending_subject, <<>> together
\* with bound = FALSE when the loop did not run.
cip_case(m, rule_key, dest_institution, sending, bound, last_subject) ==
  LET sending_cip_codes_set ==
        { Slice02(m.disciplines[<<c.institution, FirstWord(c.course_str)>>].cip_code) :
            c \in { s \in sending :
                      <<s.institution, FirstWord(s.course_str)>> \in DOMAIN m.disciplines } }
      areas == { c \in sending_cip_codes_set : Len(c) > 1 }
  IN  IF \E c \in areas : c \notin DOMAIN m.cip_area_names
        THEN { DeptRaise("KeyError", "cip") }
      ELSE
      LET formatted == { c \o <<" ", "(">> \o m.cip_area_names[c] \o <<")">> : c \in areas }
          receiving_departments ==
            { m.cip_codes[<<dest_institution, s>>] :
                s \in { f \in formatted : <<dest_institution, f>> \in DOMAIN m.cip_codes } }
      IN  IF ~bound
            THEN { DeptRaise("UnboundLocalError", "cip") }
          ELSE IF receiving_departments = {}
            THEN IF formatted # {}
                   THEN { DeptReturn(rule_key, Admin,
                            <<"N", "o", " ", "d", "e", "p", "a", "r", "t", "m", "e", "n", "t", " ", "f", "o", "u", "n", "d", " ", "f", "o", "r", " ", "C", "U", "N", "Y", " ", "s", "u", "b", "j", "e", "c", "t", " ">> \o last_subject
                              \o <<" ", "o", "r", " ", "C", "I", "P", " ", "c", "o", "d", "e", " ", "a", "r", "e", "a", " ">> \o OxfordizeStrs(q, <<"o", "r">>), "cip") :
                            q \in Orders(formatted) }
                 ELSE { DeptReturn(rule_key, Admin,
                          <<"N", "o", " ", "d", "e", "p", "a", "r", "t", "m", "e", "n", "t", " ", "f", "o", "u", "n", "d", " ", "f", "o", "r", " ", "C", "U", "N", "Y", " ", "s", "u", "b", "j", "e", "c", "t", " ">> \o last_subject
                            \o <<" ", "a", "n", "d", " ", "n", "o", " ", "C", "I", "P", " ", "c", "o", "d", "e", " ", "a", "r", "e", "a", " ", "a", "v", "a", "i", "l", "a", "b", "l", "e", " ", "f", "o", "r", " ", "m", "a", "t", "c", "h", "i", "n", "g">>, "cip") }
          ELSE IF Cardinality(receiving_departments) = 1
            THEN LET department == CHOOSE d \in receiving_departments : TRUE
                 IN  { DeptReturn(rule_key, department,
                         <<"N", "o", " ", "d", "e", "p", "a", "r", "t", "m", "e", "n", "t", " ", "f", "o", "u", "n", "d", " ", "f", "o", "r", " ", "C", "U", "N", "Y", " ", "s", "u", "b", "j", "e", "c", "t", " ">> \o last_subject
                           \o <<",", " ", "b", "u", "t", " ">> \o department
                           \o <<" ", "o", "f", "f", "e", "r", "s", " ", "c", "o", "u", "r", "s", "e", "s", " ", "i", "n", " ", "C", "I", "P", " ", "c", "o", "d", "e", " ", "a", "r", "e", "a", " ">>
                           \o OxfordizeStrs(q, <<"o", "r">>), "cip") :
                         q \in Orders(formatted) }
          ELSE { DeptReturn(rule_key, Admin,
                   <<"N", "o", " ", "d", "e", "p", "a", "r", "t", "m", "e", "n", "t", " ", "f", "o", "u", "n", "d", " ", "f", "o", "r", " ", "C", "U", "N", "Y", " ", "s", "u", "b", "j", "e", "c", "t", " ">> \o last_subject
                     \o <<",", " ", "b", "u", "t", " ">> \o OxfordizeStrs(qd, <<"a", "n", "d">>)
                     \o <<" ", "o", "f", "f", "e", "r", " ", "c", "o", "u", "r", "s", "e", "s", " ", "i", "n", " ", "C", "I", "P", " ", "c", "o", "d", "e", " ", "a", "r", "e", "a", " ">> \o OxfordizeStrs(q, <<"o", "r">>), "cip") :
                   qd \in Orders(receiving_departments), q \in Orders(formatted) }

\* Lines 209-275: the sending courses' CUNY subjects are looked up.  Reading
\* cuny_subject from a course that has no such attribute raises
\* AttributeError; sending_subject keeps the subject that the set iteration
\* of line 217 gave last.
cuny_subject_case(m, rule_key, dest_institution, sending) ==
  IF \E c \in sending : "cuny_subject" \notin DOMAIN c
    THEN { DeptRaise("AttributeError", "cuny_subject") }
  ELSE
  LET sending_subjects == { c.cuny_subject : c \in sending }
      receiving_departments ==
        { m.cuny_subjects[<<dest_institution, s>>] :
            s \in { t \in sending_subjects : <<dest_institution, t>> \in DOMAIN m.cuny_subjects } }
  IN  IF Cardinality(receiving_departments) = 1
        THEN { DeptReturn(rule_key, CHOOSE d \in receiving_departments : TRUE,
                 <<"O", "f", "f", "e", "r", "s", " ", "c", "o", "u", "r", "s", "e", "s", " ", "w", "i", "t", "h", " ", "s", "a", "m", "e", " ", "C", "U", "N", "Y", " ", "s", "u", "b", "j", "e", "c", "t", " ", "(">> \o sending_subject \o <<")">>,
                 "cuny_subject") :
                 sending_subject \in sending_subjects }
      ELSE IF receiving_departments = {}
        THEN IF sending_subjects = {}
               THEN cip_case(m, rule_key, dest_institution, sending, FALSE, <<>>)
             ELSE UNION { cip_case(m, rule_key, dest_institution, sending, TRUE, sending_subject) :
                            sending_subject \in sending_subjects }
      ELSE { DeptReturn(rule_key, Admin,
               OxfordizeStrs(q, <<"a", "n", "d">>) \o <<" ", "o", "f", "f", "e", "r", " ", "c", "o", "u", "r", "s", "e", "s", " ", "i", "n", " ">> \o sending_subject,
               "cuny_subject") :
               q \in Orders(receiving_departments), sending_subject \in sending_subjects }

\* Lines 192-275: every receiving course is a MESG or BKCR course.  One
\* subject that _disciplines does not have ends the set comprehension of line
\* 196 with KeyError, and departments stays the empty set of line 163.
admin_courses_case(m, rule_key, dest_institution, admin_subjects, sending) ==
  LET departments ==
        IF \A subj \in admin_subjects : <<dest_institution, subj>> \in DOMAIN m.disciplines
        THEN { m.disciplines[<<dest_institution, subj>>].department : subj \in admin_subjects }
        ELSE {}
  IN  IF Cardinality(departments) = 1
        THEN { one_department(m, rule_key, dest_institution,
                              CHOOSE d \in departments : TRUE, "admin") }
      ELSE cuny_subject_case(m, rule_key, dest_institution, sending)

\* Mutant: an empty receiving set goes unnoticed.
no_receiving_courses_ignored(receiving_courses) == FALSE

\* if not receiving_courses
no_receiving_courses(receiving_courses) == receiving_courses = {}

\* A defaultdict(set) read with d[key].
DefaultSet(d, key) == IF key \in DOMAIN d THEN d[key] ELSE {}

\* The rule key a call works on, for an arg that _id_to_key has.
rule_key_of(m, rule_arg) == IF "id" \in DOMAIN rule_arg THEN m.id_to_key[rule_arg.id] ELSE rule_arg.key

\* destination_department(arg): the results the call can end with, one for
\* each way the sets can be iterated.  The arg is [id |-> n] for an int and
\* [key |-> s] for a str.
destination_department(m, rule_arg) ==
  IF "id" \in DOMAIN rule_arg /\ rule_arg.id \notin DOMAIN m.id_to_key
    THEN { DeptRaise("KeyError", "_id_to_key") }
  ELSE
  LET rule_key == rule_key_of(m, rule_arg)
      dest_institution == Slice611(rule_key)
      receiving_courses == DefaultSet(m.receiving_courses, rule_key)
      admin_courses == { c \in receiving_courses : c.is_mesg \/ c.is_bkcr }
      real_courses == receiving_courses \ admin_courses
      real_subjects == { FirstWord(c.course_str) : c \in real_courses }
      admin_subjects == { FirstWord(c.course_str) : c \in admin_courses }
  IN  IF no_receiving_courses(receiving_courses)
        THEN { DeptRaise("ValueError", "receiving_courses") }
      ELSE IF real_subjects # {}
        THEN real_courses_case(m, rule_key, dest_institution, real_subjects)
      ELSE admin_courses_case(m, rule_key, dest_institution, admin_subjects,
                              DefaultSet(m.sending_courses, rule_key))

\* _receiving_courses after the call: line 153 reads the defaultdict with
\* _receiving_courses[rule_key], which stores an empty set under a key that
\* was missing.
receiving_index_after(m, rule_arg) ==
  IF "id" \in DOMAIN rule_arg /\ rule_arg.id \notin DOMAIN m.id_to_key THEN m.receiving_courses
  ELSE IF rule_key_of(m, rule_arg) \in DOMAIN m.receiving_courses THEN m.receiving_courses
  ELSE m.receiving_courses @@ (rule_key_of(m, rule_arg) :> {})

\* _sending_courses after the call: line 213 reads it the same way when the
\* call gets as far as the sending courses.
sending_index_after(m, rule_arg, result) ==
  IF result.path \in {"cuny_subject", "cip"}
       /\ rule_key_of(m, rule_arg) \notin DOMAIN m.sending_courses
  THEN m.sending_courses @@ (rule_key_of(m, rule_arg) :> {})
  ELSE m.sending_courses

-----------------------------------------------------------------------------
(* Specification of the department lookup: the module is imported with the *)
(* courses of one rule drawn from small catalogs, then one call is made.   *)

\* The rule has at most MaxReceiving receiving and MaxSending sending courses.
MaxReceiving == 2
MaxSending == 2

RuleKey == <<"Q", "C", "C", "0", "1", ":", "Q", "N", "S", "0", "1", ":", "M", "A", "T", ":", "1">>
OtherKey == <<"Q", "C", "C", "0", "1", ":", "Q", "N", "S", "0", "1", ":", "B", "I", "O", ":", "2">>
UnknownKey == <<"Q", "C", "C", "0", "1", ":", "Q", "N", "S", "0", "1", ":", "X", "X", "X", ":", "9">>

\* Real courses of BIO, CHM and XYZ and one of no department; blanket-credit
\* and message courses with the disciplines of BIO, CHM and XYZ and one with
\* a discipline of no department.
ReceivingCatalog ==
  { Metadata(QNS01, <<"B", "I", "O", "L", " ", "1", "0", "1">>, TRUE, TRUE, FALSE, FALSE, FALSE),
    Metadata(QNS01, <<"C", "H", "E", "M", " ", "1", "0", "1">>, TRUE, TRUE, FALSE, FALSE, FALSE),
    Metadata(QNS01, <<"X", "Y", "Z", "A", " ", "1">>, TRUE, TRUE, FALSE, FALSE, FALSE),
    Metadata(QNS01, <<"Z", "Z", "Z", " ", "1">>, TRUE, FALSE, FALSE, FALSE, FALSE),
    Metadata(QNS01, <<"B", "I", "O", "L", " ", "4", "9", "9">>, TRUE, TRUE, FALSE, TRUE, FALSE),
    Metadata(QNS01, <<"C", "H", "E", "M", " ", "4", "9", "9">>, TRUE, TRUE, TRUE, FALSE, FALSE),
    Metadata(QNS01, <<"X", "Y", "Z", "A", " ", "4", "9", "9">>, TRUE, TRUE, FALSE, TRUE, FALSE),
    Metadata(QNS01, <<"E", "L", "E", "C", " ", "1">>, TRUE, TRUE, FALSE, TRUE, FALSE) }

\* The courses that rules send: Metadata tuples of shared_metadata.py, which
\* have no field cuny_subject.  UNK is a discipline that cuny_disciplines
\* does not have.
SendingCatalog ==
  { Metadata(QCC01, <<"M", "A", "T", " ", "1">>, TRUE, TRUE, FALSE, FALSE, FALSE),
    Metadata(QCC01, <<"B", "I", "O", " ", "1">>, TRUE, TRUE, FALSE, FALSE, FALSE),
    Metadata(QCC01, <<"E", "C", "O", " ", "1">>, TRUE, TRUE, FALSE, FALSE, FALSE),
    Metadata(QCC01, <<"G", "E", "O", " ", "1">>, TRUE, TRUE, FALSE, FALSE, FALSE),
    Metadata(QCC01, <<"A", "R", "T", " ", "1">>, TRUE, TRUE, FALSE, FALSE, FALSE),
    Metadata(QCC01, <<"N", "O", "C", " ", "1">>, TRUE, TRUE, FALSE, FALSE, FALSE),
    Metadata(QCC01, <<"N", "O", "T", " ", "1">>, TRUE, TRUE, FALSE, FALSE, FALSE),
    Metadata(QCC01, <<"U", "N", "K", " ", "1">>, TRUE, TRUE, FALSE, FALSE, FALSE) }

ReceivingSets == { S \in SUBSET ReceivingCatalog : Cardinality(S) <= MaxReceiving }

\* The sending courses of the rule, as lines 100-105 store them.
SendingSets == { S \in SUBSET SendingCatalog : Cardinality(S) <= MaxSending }

\* A defaultdict has a key only for a rule that has courses.
CourseIndex(courses, other) ==
  IF courses = {} THEN (OtherKey :> other) ELSE (RuleKey :> courses) @@ (OtherKey :> other)

InitDept ==
  /\ pc = "ready"
  /\ arg = [key |-> <<>>]
  /\ res = NoResult
  /\ \E rows \in RowOrders, receiving \in ReceivingSets, sending \in SendingSets :
       mem = [log |-> <<>>,
              id_to_key |-> (1 :> RuleKey) @@ (2 :> OtherKey),
              disciplines |-> disciplines_dict(rows),
              cuny_subjects |-> cuny_subjects_dict(rows),
              cip_codes |-> cip_codes_dict(rows),
              cip_area_names |-> cip_area_names,
              department_names |-> department_names,
              sending_courses |->
                CourseIndex(sending, {Metadata(QCC01, <<"B", "I", "O", " ", "1">>, TRUE, TRUE, FALSE, FALSE, FALSE)}),
              receiving_courses |->
                CourseIndex(receiving, {Metadata(QNS01, <<"B", "I", "O", "L", " ", "1", "0", "1">>, TRUE, TRUE, FALSE, FALSE, FALSE)})]

\* The arguments of a call: the key or the id of the rule, a key and an id
\* that the module has not loaded.
RuleArgs == { [key |-> RuleKey], [id |-> 1], [key |-> UnknownKey], [id |-> 9] }

CallDestinationDepartment ==
  /\ pc = "ready"
  /\ \E rule_arg \in RuleArgs :
       \E result \in destination_department(mem, rule_arg) :
         /\ pc' = "destination_department"
         /\ arg' = rule_arg
         /\ res' = result
         /\ mem' = [mem EXCEPT !.receiving_courses = receiving_index_after(mem, rule_arg),
                               !.sending_courses = sending_index_after(mem, rule_arg, result)]

NextDept == CallDestinationDepartment

SpecDept == InitDept /\ [][NextDept]_vars

-----------------------------------------------------------------------------
(* Claims about destination_department, checked under SpecDept *)

DeptCalled == pc = "destination_department"

\* The call was made for the rule whose courses Init drew.
ForTheRule == DeptCalled /\ arg \in { [key |-> RuleKey], [id |-> 1] }

Receiving == DefaultSet(mem.receiving_courses, RuleKey)
Sending == DefaultSet(mem.sending_courses, RuleKey)

RealReceiving == { c \in Receiving : ~c.is_mesg /\ ~c.is_bkcr }
AdminReceiving == Receiving \ RealReceiving

\* The rows of cuny_disciplines the module loaded.
LoadedRows == Range(mem.disciplines)

\* The departments of the destination institution in the discipline index.
DestinationDepartments ==
  { row.department : row \in { r \in LoadedRows : r.institution = QNS01 } }

\* The departments that the disciplines of a set of receiving courses
\* resolve to; disciplines that the index does not have resolve to none.
ResolvedDepartments(courses) ==
  { row.department :
      row \in { r \in LoadedRows :
                  /\ r.institution = QNS01
                  /\ \E c \in courses : FirstWord(c.course_str) = r.discipline } }

\* C12: a call for a rule that has receiving courses returns a result whose
\* department is 'Admin' or a department of the destination institution's
\* discipline index and whose details are not empty; it does not raise.
C12_AlwaysAResult ==
  (ForTheRule /\ Receiving # {}) =>
    /\ res.raised = "none"
    /\ res.rule_key = RuleKey
    /\ res.department \in {Admin} \cup DestinationDepartments
    /\ res.details # <<>>

\* C13: the result of a call does not depend on the order in which the sets
\* are iterated: every result the call can end with for the same tables and
\* the same rule has the same department and the same details.
C13_Deterministic ==
  ForTheRule => destination_department(mem, arg) = {res}

\* C14: when there is a real receiving course and the real courses' resolvable
\* disciplines resolve to exactly one department, which has a name, the call
\* returns that department with its name as details, whatever administrative
\* courses and unresolvable real disciplines the receiving set also has.
C14_OneRealDepartment ==
  \A d \in DestinationDepartments :
    (/\ ForTheRule
     /\ RealReceiving # {}
     /\ ResolvedDepartments(RealReceiving) = {d}
     /\ <<QNS01, d>> \in DOMAIN mem.department_names)
    => /\ res.raised = "none"
       /\ res.department = d
       /\ res.details = mem.department_names[<<QNS01, d>>]

\* A real BIOL course received together with a course that is administrative
\* or of no department: the department is BIO.
C14_Witness ==
  /\ ForTheRule
  /\ Cardinality(Receiving) = 2
  /\ ResolvedDepartments(RealReceiving) = {<<"B", "I", "O">>}
  /\ \E c \in Receiving : c \in AdminReceiving \/ ResolvedDepartments({c}) = {}
  /\ res.raised = "none"
  /\ res.department = <<"B", "I", "O">>
  /\ res.details = <<"B", "i", "o", "l", "o", "g", "y">>

\* C15 as claimed: with two or more departments resolved from the real
\* receiving courses the department is 'Admin' and details has the display
\* name of every candidate department that has one, joined with 'and'.
C15_ListsDepartmentNames ==
  (ForTheRule /\ Cardinality(ResolvedDepartments(RealReceiving)) >= 2) =>
    /\ res.raised = "none"
    /\ res.department = Admin
    /\ Contains(res.details, <<" ", "a", "n", "d", " ">>)
    /\ \A d \in ResolvedDepartments(RealReceiving) :
         <<QNS01, d>> \in DOMAIN mem.department_names
           => Contains(res.details, mem.department_names[<<QNS01, d>>])

\* C15: with two or more departments resolved from the real receiving
\* courses the department is 'Admin' and details is 'Multiple receiving
\* departments: ' followed by the codes of all candidate departments, in some
\* order, joined with 'and'.
C15_ListsDepartmentCodes ==
  (ForTheRule /\ Cardinality(ResolvedDepartments(RealReceiving)) >= 2) =>
    /\ res.raised = "none"
    /\ res.department = Admin
    /\ \E q \in Orders(ResolvedDepartments(RealReceiving)) :
         res.details = <<"M", "u", "l", "t", "i", "p", "l", "e", " ", "r", "e", "c", "e", "i", "v", "i", "n", "g", " ", "d", "e", "p", "a", "r", "t", "m", "e", "n", "t", "s", ":", " ">> \o JoinAsSpecified(q, <<"a", "n", "d">>)

\* Real courses of BIO and CHM are received.
C15_Witness ==
  /\ ForTheRule
  /\ ResolvedDepartments(RealReceiving) = { <<"B", "I", "O">>, <<"C", "H", "M">> }
  /\ res.raised = "none"
  /\ res.details = <<"M", "u", "l", "t", "i", "p", "l", "e", " ", "r", "e", "c", "e", "i", "v", "i", "n", "g", " ", "d", "e", "p", "a", "r", "t", "m", "e", "n", "t", "s", ":", " ", "B", "I", "O", " ", "a", "n", "d", " ", "C", "H", "M">>

\* The receiving courses are all administrative and their disciplines give
\* no single department, so that the sending side is consulted.
SendingConsulted ==
  /\ ForTheRule
  /\ Receiving # {}
  /\ RealReceiving = {}
  /\ \/ \E c \in AdminReceiving : ResolvedDepartments({c}) = {}
     \/ Cardinality(ResolvedDepartments(AdminReceiving)) # 1

\* No receiving course has a discipline that the index resolves.
NoResolvableDiscipline == ResolvedDepartments(Receiving) = {}

\* The CUNY subjects of the sending courses: those that cuny_disciplines
\* gives for the discipline of a course at its institution.
SendingSubjects ==
  { r.cuny_subject :
      r \in { x \in LoadedRows :
                \E c \in Sending : c.institution = x.institution
                                     /\ FirstWord(c.course_str) = x.discipline } }

\* The departments of the destination institution that offer a discipline
\* with the CUNY subject s, and those with a discipline in the CIP area a.
DepartmentsOfSubject(s) ==
  { r.department : r \in { x \in LoadedRows : x.institution = QNS01 /\ x.cuny_subject = s } }

DepartmentsOfArea(a) ==
  { r.department : r \in { x \in LoadedRows : x.institution = QNS01 /\ Slice02(x.cip_code) = a } }

\* The CIP areas of the disciplines of the sending courses.
SendingAreas ==
  { Slice02(r.cip_code) :
      r \in { x \in LoadedRows :
                \E c \in Sending : c.institution = x.institution
                                     /\ FirstWord(c.course_str) = x.discipline } }

\* C16: when the receiving set is all administrative with no resolvable
\* discipline and the sending courses' CUNY subjects match exactly one
\* department, that department is returned and the subject named in details
\* is one that the department offers.
C16_NamesMatchingSubject ==
  \A d \in DestinationDepartments :
    (/\ SendingConsulted /\ NoResolvableDiscipline /\ Sending # {}
     /\ UNION { DepartmentsOfSubject(t) : t \in SendingSubjects } = {d})
    => /\ res.raised = "none"
       /\ res.department = d
       /\ \E t \in SendingSubjects :
            /\ d \in DepartmentsOfSubject(t)
            /\ res.details = <<"O", "f", "f", "e", "r", "s", " ", "c", "o", "u", "r", "s", "e", "s", " ", "w", "i", "t", "h", " ", "s", "a", "m", "e", " ", "C", "U", "N", "Y", " ", "s", "u", "b", "j", "e", "c", "t", " ", "(">> \o t \o <<")">>

\* A call whose argument names a rule key: a str, or an int that _id_to_key has.
KeyOfCall(rule_arg) ==
  IF "id" \in DOMAIN rule_arg THEN mem.id_to_key[rule_arg.id] ELSE rule_arg.key

\* C17: a call for a rule key under which the receiving-course index has no
\* course, a key the index does not have included, raises ValueError before
\* any course is classified and returns nothing, and the discipline,
\* department-name, CUNY-subject and CIP tables are what they were.
C17_NoReceivingCoursesIsFatal ==
  [][ (/\ pc' = "destination_department"
       /\ ("id" \in DOMAIN arg' => arg'.id \in DOMAIN mem.id_to_key)
       /\ DefaultSet(mem.receiving_courses, KeyOfCall(arg')) = {})
      => /\ res' = DeptRaise("ValueError", "receiving_courses")
         /\ mem'.disciplines = mem.disciplines
         /\ mem'.department_names = mem.department_names
         /\ mem'.cuny_subjects = mem.cuny_subjects
         /\ mem'.cip_codes = mem.cip_codes
         /\ mem'.cip_area_names = mem.cip_area_names ]_vars

\* A call with a rule key that the module has not loaded, while the rule
\* that is loaded has receiving and sending courses.
C17_Witness ==
  /\ DeptCalled
  /\ arg = [key |-> UnknownKey]
  /\ res.raised = "ValueError"
  /\ Receiving # {}
  /\ Sending # {}
  /\ "department" \notin DOMAIN res

\* C19: in the CIP fallback, when exactly one department of the destination
\* institution has a discipline in the CIP area of a sending course's
\* discipline, that department is returned with details that name the CIP
\* code area.
C19_OneCipDepartment ==
  \A d \in DestinationDepartments :
    (/\ SendingConsulted /\ Sending # {}
     /\ UNION { DepartmentsOfSubject(t) : t \in SendingSubjects } = {}
     /\ SendingAreas \subseteq DOMAIN mem.cip_area_names
     /\ UNION { DepartmentsOfArea(a) : a \in SendingAreas } = {d})
    => /\ res.raised = "none"
       /\ res.department = d
       /\ Contains(res.details, <<"C", "I", "P", " ", "c", "o", "d", "e", " ", "a", "r", "e", "a">>)

\* C20: in the CUNY-subject fallback, when a sending course's CUNY subject is
\* offered by two or more departments of the destination institution, the
\* department is 'Admin' and details names every one of those departments.
C20_SeveralSubjectDepartments ==
  \A t \in SendingSubjects :
    (/\ SendingConsulted
     /\ Cardinality(DepartmentsOfSubject(t)) >= 2)
    => /\ res.raised = "none"
       /\ res.department = Admin
       /\ \A d \in DepartmentsOfSubject(t) : Contains(res.details, d)

-----------------------------------------------------------------------------
(* The course flags (shared_metadata.py and transfer_statistics.py)        *)

\* The characters str.strip() removes when it is given no argument: the 29
\* characters for which str.isspace() is true.  One that TLA+ has no escape
\* for is written as its Python escape, "\\x0b" for the character '\x0b'.
Whitespace ==
  { "\t", "\n", "\\x0b", "\f", "\r", "\\x1c", "\\x1d", "\\x1e", "\\x1f", " ",
    "\\x85", "\\xa0", "\\u1680", "\\u2000", "\\u2001", "\\u2002", "\\u2003",
    "\\u2004", "\\u2005", "\\u2006", "\\u2007", "\\u2008", "\\u2009", "\\u200a",
    "\\u2028", "\\u2029", "\\u202f", "\\u205f", "\\u3000" }

\* repr() of one character of a str that holds no single quote and no
\* backslash.  A character that is not printable is written as its escape:
\* here the control characters U+0000-U+001F and U+007F-U+00A0, the soft
\* hyphen U+00AD and the whitespace characters above U+00FF.  The operator
\* is defined for these, for the printable ASCII characters but the grave
\* accent (which a TLA+ string cannot hold), and for no other character.
ReprChar(c) ==
  LET PrintableAscii ==
    { " ", "!", "\"", "#", "$", "%", "&", "(", ")", "*", "+", ",", "-", ".",
      "/", "0", "1", "2", "3", "4", "5", "6", "7", "8", "9", ":", ";", "<",
      "=", ">", "?", "@", "A", "B", "C", "D", "E", "F", "G", "H", "I", "J",
      "K", "L", "M", "N", "O", "P", "Q", "R", "S", "T", "U", "V", "W", "X",
      "Y", "Z", "[", "]", "^", "_", "a", "b", "c", "d", "e", "f", "g",
      "h", "i", "j", "k", "l", "m", "n", "o", "p", "q", "r", "s", "t", "u",
      "v", "w", "x", "y", "z", "{", "|", "}", "~" }
  IN
  CASE c = "\\x00" -> <<"\\", "x", "0", "0">>
    [] c = "\\x01" -> <<"\\", "x", "0", "1">>
    [] c = "\\x02" -> <<"\\", "x", "0", "2">>
    [] c = "\\x03" -> <<"\\", "x", "0", "3">>
    [] c = "\\x04" -> <<"\\", "x", "0", "4">>
    [] c = "\\x05" -> <<"\\", "x", "0", "5">>
    [] c = "\\x06" -> <<"\\", "x", "0", "6">>
    [] c = "\\x07" -> <<"\\", "x", "0", "7">>
    [] c = "\\x08" -> <<"\\", "x", "0", "8">>
    [] c = "\t" -> <<"\\", "t">>
    [] c = "\n" -> <<"\\", "n">>
    [] c = "\\x0b" -> <<"\\", "x", "0", "b">>
    [] c = "\f" -> <<"\\", "x", "0", "c">>
    [] c = "\r" -> <<"\\", "r">>
    [] c = "\\x0e" -> <<"\\", "x", "0", "e">>
    [] c = "\\x0f" -> <<"\\", "x", "0", "f">>
    [] c = "\\x10" -> <<"\\", "x", "1", "0">>
    [] c = "\\x11" -> <<"\\", "x", "1", "1">>
    [] c = "\\x12" -> <<"\\", "x", "1", "2">>
    [] c = "\\x13" -> <<"\\", "x", "1", "3">>
    [] c = "\\x14" -> <<"\\", "x", "1", "4">>
    [] c = "\\x15" -> <<"\\", "x", "1", "5">>
    [] c = "\\x16" -> <<"\\", "x", "1", "6">>
    [] c = "\\x17" -> <<"\\", "x", "1", "7">>
    [] c = "\\x18" -> <<"\\", "x", "1", "8">>
    [] c = "\\x19" -> <<"\\", "x", "1", "9">>
    [] c = "\\x1a" -> <<"\\", "x", "1", "a">>
    [] c = "\\x1b" -> <<"\\", "x", "1", "b">>
    [] c = "\\x1c" -> <<"\\", "x", "1", "c">>
    [] c = "\\x1d" -> <<"\\", "x", "1", "d">>
    [] c = "\\x1e" -> <<"\\", "x", "1", "e">>
    [] c = "\\x1f" -> <<"\\", "x", "1", "f">>
    [] c = "\\x7f" -> <<"\\", "x", "7", "f">>
    [] c = "\\x80" -> <<"\\", "x", "8", "0">>
    [] c = "\\x81" -> <<"\\", "x", "8", "1">>
    [] c = "\\x82" -> <<"\\", "x", "8", "2">>
    [] c = "\\x83" -> <<"\\", "x", "8", "3">>
    [] c = "\\x84" -> <<"\\", "x", "8", "4">>
    [] c = "\\x85" -> <<"\\", "x", "8", "5">>
    [] c = "\\x86" -> <<"\\", "x", "8", "6">>
    [] c = "\\x87" -> <<"\\", "x", "8", "7">>
    [] c = "\\x88" -> <<"\\", "x", "8", "8">>
    [] c = "\\x89" -> <<"\\", "x", "8", "9">>
    [] c = "\\x8a" -> <<"\\", "x", "8", "a">>
    [] c = "\\x8b" -> <<"\\", "x", "8", "b">>
    [] c = "\\x8c" -> <<"\\", "x", "8", "c">>
    [] c = "\\x8d" -> <<"\\", "x", "8", "d">>
    [] c = "\\x8e" -> <<"\\", "x", "8", "e">>
    [] c = "\\x8f" -> <<"\\", "x", "8", "f">>
    [] c = "\\x90" -> <<"\\", "x", "9", "0">>
    [] c = "\\x91" -> <<"\\", "x", "9", "1">>
    [] c = "\\x92" -> <<"\\", "x", "9", "2">>
    [] c = "\\x93" -> <<"\\", "x", "9", "3">>
    [] c = "\\x94" -> <<"\\", "x", "9", "4">>
    [] c = "\\x95" -> <<"\\", "x", "9", "5">>
    [] c = "\\x96" -> <<"\\", "x", "9", "6">>
    [] c = "\\x97" -> <<"\\", "x", "9", "7">>
    [] c = "\\x98" -> <<"\\", "x", "9", "8">>
    [] c = "\\x99" -> <<"\\", "x", "9", "9">>
    [] c = "\\x9a" -> <<"\\", "x", "9", "a">>
    [] c = "\\x9b" -> <<"\\", "x", "9", "b">>
    [] c = "\\x9c" -> <<"\\", "x", "9", "c">>
    [] c = "\\x9d" -> <<"\\", "x", "9", "d">>
    [] c = "\\x9e" -> <<"\\", "x", "9", "e">>
    [] c = "\\x9f" -> <<"\\", "x", "9", "f">>
    [] c = "\\xa0" -> <<"\\", "x", "a", "0">>
    [] c = "\\xad" -> <<"\\", "x", "a", "d">>
    [] c = "\\u1680" -> <<"\\", "u", "1", "6", "8", "0">>
    [] c = "\\u2000" -> <<"\\", "u", "2", "0", "0", "0">>
    [] c = "\\u2001" -> <<"\\", "u", "2", "0", "0", "1">>
    [] c = "\\u2002" -> <<"\\", "u", "2", "0", "0", "2">>
    [] c = "\\u2003" -> <<"\\", "u", "2", "0", "0", "3">>
    [] c = "\\u2004" -> <<"\\", "u", "2", "0", "0", "4">>
    [] c = "\\u2005" -> <<"\\", "u", "2", "0", "0", "5">>
    [] c = "\\u2006" -> <<"\\", "u", "2", "0", "0", "6">>
    [] c = "\\u2007" -> <<"\\", "u", "2", "0", "0", "7">>
    [] c = "\\u2008" -> <<"\\", "u", "2", "0", "0", "8">>
    [] c = "\\u2009" -> <<"\\", "u", "2", "0", "0", "9">>
    [] c = "\\u200a" -> <<"\\", "u", "2", "0", "0", "a">>
    [] c = "\\u2028" -> <<"\\", "u", "2", "0", "2", "8">>
    [] c = "\\u2029" -> <<"\\", "u", "2", "0", "2", "9">>
    [] c = "\\u202f" -> <<"\\", "u", "2", "0", "2", "f">>
    [] c = "\\u205f" -> <<"\\", "u", "2", "0", "5", "f">>
    [] c = "\\u3000" -> <<"\\", "u", "3", "0", "0", "0">>
    [] c \in PrintableAscii -> <<c>>

\* repr(s) for a str s of characters ReprChar is defined for.
RECURSIVE ReprChars(_)
ReprChars(s) == IF s = <<>> THEN <<>> ELSE ReprChar(s[1]) \o ReprChars(Tail(s))

StrRepr(s) == <<"'">> \o ReprChars(s) \o <<"'">>

BoolRepr(b) == IF b THEN <<"T", "r", "u", "e">> ELSE <<"F", "a", "l", "s", "e">>

\* shared_metadata.py _flags_str
flags_str(self) ==
  (IF ~self.is_ugrad THEN <<"G">> ELSE <<>>)
    \o (IF ~self.is_active THEN <<"I">> ELSE <<>>)
    \o (IF self.is_mesg THEN <<"M">> ELSE <<>>)
    \o (IF self.is_bkcr THEN <<"B">> ELSE <<>>)
    \o (IF self.is_unknown THEN <<"?">> ELSE <<>>)

\* transfer_statistics.py _meta_str_
meta_str(self) ==
  (IF ~self.is_ugrad THEN <<"G">> ELSE <<>>)
    \o (IF ~self.is_active THEN <<"I">> ELSE <<>>)
    \o (IF self.is_mesg THEN <<"M">> ELSE <<>>)
    \o (IF self.is_bkcr THEN <<"B">> ELSE <<>>)
    \o (IF self.is_unknown THEN <<"?">> ELSE <<>>)

\* shared_metadata.py lines 53-61: the Metadata stored for a row of cuny_courses.
shared_metadata_entry(row) ==
  Metadata(row.institution,
           Strip(row.discipline, Whitespace) \o <<" ">> \o Strip(row.catalog_number, Whitespace),
           row.is_ugrad, row.is_active, row.is_mesg, row.is_bkcr, FALSE)

\* transfer_statistics.py lines 285-292: the Metadata stored for a row of
\* cuny_courses; the last value, is_unknown, is True.
transfer_statistics_entry(row) ==
  [discipline |-> row.discipline, catalog_number |-> row.catalog_number,
   is_ugrad |-> row.is_ugrad, is_active |-> row.is_active, is_mesg |-> row.is_mesg,
   is_bkcr |-> row.is_bkcr, is_unknown |-> TRUE]

\* transfer_statistics.py lines 378-387: the Metadata made up for a transferred
\* course whose key metadata does not have.
faked_entry(dst_subject, dst_catalog_nbr) ==
  [discipline |-> Strip(dst_subject, Whitespace),
   catalog_number |-> Strip(dst_catalog_nbr, Whitespace),
   is_ugrad |-> FALSE, is_active |-> FALSE, is_mesg |-> FALSE,
   is_bkcr |-> FALSE, is_unknown |-> TRUE]

\* str() of the bound method dst_meta.flags, as an f-string formats it:
\* repr() of the Metadata it is bound to, inside '<bound method ... >'.
method_str(self) ==
  <<"<", "b", "o", "u", "n", "d", " ", "m", "e", "t", "h", "o", "d", " ", "_", "m", "e", "t", "a", "_", "s", "t", "r", "_", " ", "o", "f", " ", "M", "e", "t", "a", "d", "a", "t", "a", "(", "d", "i", "s", "c", "i", "p", "l", "i", "n", "e", "=">>
    \o StrRepr(self.discipline) \o <<",", " ", "c", "a", "t", "a", "l", "o", "g", "_", "n", "u", "m", "b", "e", "r", "=">>
    \o StrRepr(self.catalog_number) \o <<",", " ", "i", "s", "_", "u", "g", "r", "a", "d", "=">>
    \o BoolRepr(self.is_ugrad) \o <<",", " ", "i", "s", "_", "a", "c", "t", "i", "v", "e", "=">>
    \o BoolRepr(self.is_active) \o <<",", " ", "i", "s", "_", "m", "e", "s", "g", "=">>
    \o BoolRepr(self.is_mesg) \o <<",", " ", "i", "s", "_", "b", "k", "c", "r", "=">>
    \o BoolRepr(self.is_bkcr) \o <<",", " ", "i", "s", "_", "u", "n", "k", "n", "o", "w", "n", "=">>
    \o BoolRepr(self.is_unknown) \o <<")", ">">>

\* transfer_statistics.py lines 396-397: the DstCourse of course_set_factory
\* after its count is incremented and its flags are set to dst_meta.flags,
\* which is the bound method: the line does not call it.
stored_dst_course(dst_meta) ==
  [course_str |-> <<"U", "n", "k", "n", "o", "w", "n">>,
   flags |-> [bound_method |-> "_meta_str_", self |-> dst_meta],
   count |-> 1]

\* What lines 378-397 leave for a transferred course: the Metadata, whether
\* the catalog had it, the DstCourse, and the text line 458 shows as flags.
StoredReturn(dst_meta, in_catalog) ==
  [raised |-> "none", text |-> method_str(dst_meta), meta |-> dst_meta,
   in_catalog |-> in_catalog, dst_course |-> stored_dst_course(dst_meta)]

\* The flags of a course, with the Metadata they were computed from and
\* whether the course was found in cuny_courses.
FlagsReturn(text, meta, in_catalog) ==
  [raised |-> "none", text |-> text, meta |-> meta, in_catalog |-> in_catalog]

\* The rows of cuny_courses: every combination of the four tests, for a
\* discipline and a catalog number with and without padding, by blanks and
\* by other whitespace.
CourseRows ==
  [institution : {QNS01},
   discipline : { <<"B", "I", "O", "L">>, <<"B", "I", "O", "L", " ", " ">>,
                  <<"\r", "B", "I", "O", "L", "\\xa0">> },
   catalog_number : { <<"1", "0", "1">>, <<" ", "1", "0", "1">> },
   is_ugrad : BOOLEAN, is_active : BOOLEAN, is_mesg : BOOLEAN, is_bkcr : BOOLEAN]

InitFlags ==
  /\ pc = "ready"
  /\ arg \in CourseRows
  /\ res = NoResult
  /\ mem = NoMem

\* The course is in the catalog shared_metadata.py loaded.
CallFlagsStr ==
  /\ pc = "ready"
  /\ pc' = "shared_metadata.flags"
  /\ res' = FlagsReturn(flags_str(shared_metadata_entry(arg)), shared_metadata_entry(arg), TRUE)
  /\ UNCHANGED <<arg, mem>>

\* _meta_str_ called on the Metadata transfer_statistics.py loaded for a
\* course of the catalog.
CallMetaStr ==
  /\ pc = "ready"
  /\ pc' = "transfer_statistics.flags"
  /\ res' = FlagsReturn(meta_str(transfer_statistics_entry(arg)),
                        transfer_statistics_entry(arg), TRUE)
  /\ UNCHANGED <<arg, mem>>

\* _meta_str_ called on the Metadata made up for a transferred course that
\* is not in the catalog.
CallMetaStrFaked ==
  /\ pc = "ready"
  /\ pc' = "transfer_statistics.flags"
  /\ res' = FlagsReturn(meta_str(faked_entry(arg.discipline, arg.catalog_number)),
                        faked_entry(arg.discipline, arg.catalog_number), FALSE)
  /\ UNCHANGED <<arg, mem>>

\* transfer_statistics.py lines 378-397 for one transferred course, which is
\* in metadata or is not: the script stores dst_meta.flags without calling
\* it, and line 458 formats what was stored.  The catalog row and the
\* transferred row are the same row here, so that course_str() and
\* dst_course_str agree and lines 389-390 log nothing.
StoreFlags ==
  /\ pc = "ready"
  /\ pc' = "transfer_statistics.xfr_info"
  /\ \E in_catalog \in BOOLEAN :
       res' = StoredReturn(IF in_catalog
                           THEN transfer_statistics_entry(arg)
                           ELSE faked_entry(arg.discipline, arg.catalog_number),
                           in_catalog)
  /\ UNCHANGED <<arg, mem>>

NextFlags == CallFlagsStr \/ CallMetaStr \/ CallMetaStrFaked \/ StoreFlags

SpecFlags == InitFlags /\ [][NextFlags]_vars

FlagsCalled ==
  pc \in {"shared_metadata.flags", "transfer_statistics.flags", "transfer_statistics.xfr_info"}

\* The markers in the order G, I, M, B, ? for a course with the given tests.
Markers(not_ugrad, not_active, mesg, bkcr, unknown) ==
  (IF not_ugrad THEN <<"G">> ELSE <<>>) \o (IF not_active THEN <<"I">> ELSE <<>>)
    \o (IF mesg THEN <<"M">> ELSE <<>>) \o (IF bkcr THEN <<"B">> ELSE <<>>)
    \o (IF unknown THEN <<"?">> ELSE <<>>)

\* C18: the flags are the markers G, I, M, B, ? in that order, one for each
\* condition that holds, the last exactly when the course is not in the
\* catalog; an undergraduate, active, real course of the catalog has none.
C18_FlagsAsClaimed ==
  FlagsCalled =>
    /\ res.in_catalog =>
         res.text = Markers(~arg.is_ugrad, ~arg.is_active, arg.is_mesg, arg.is_bkcr, FALSE)
    /\ (res.in_catalog /\ arg.is_ugrad /\ arg.is_active /\ ~arg.is_mesg /\ ~arg.is_bkcr)
         => res.text = <<>>
    /\ (\E i \in 1..Len(res.text) : res.text[i] = "?") => ~res.in_catalog

-----------------------------------------------------------------------------
(* Further claims about destination_department, checked under SpecDept *)

\* C21: when every receiving course is administrative and the administrative
\* disciplines that the index resolves give exactly one department, the call
\* ends in the administrative-discipline branch without reading the sending
\* courses and returns that department if it has a name, also when another
\* administrative course has a discipline that does not resolve.
C21_AdminDisciplineDepartment ==
  \A d \in DestinationDepartments :
    (/\ ForTheRule
     /\ Receiving # {}
     /\ RealReceiving = {}
     /\ ResolvedDepartments(AdminReceiving) = {d})
    => /\ res.raised = "none"
       /\ res.path = "admin"
       /\ <<QNS01, d>> \in DOMAIN mem.department_names
            => /\ res.department = d
               /\ res.details = mem.department_names[<<QNS01, d>>]

\* C22: when the disciplines of the real receiving courses, or of the
\* administrative ones if there is no real course, resolve to exactly one
\* department and the department-name table does not have it, the call
\* returns 'Admin' with details '{department} not found' and does not raise.
C22_UnnamedDepartment ==
  \A d \in DestinationDepartments :
    (/\ ForTheRule
     /\ Receiving # {}
     /\ ResolvedDepartments(IF RealReceiving # {} THEN RealReceiving ELSE AdminReceiving) = {d}
     /\ <<QNS01, d>> \notin DOMAIN mem.department_names)
    => /\ res.raised = "none"
       /\ res.department = Admin
       /\ res.details = d \o <<" ", "n", "o", "t", " ", "f", "o", "u", "n", "d">>

-----------------------------------------------------------------------------
(* Further claims about format_rule, checked under SpecRule *)

\* What receiving course i adds to a clause grouped by discipline: its
\* catalog number alone after a course of the same discipline, else ' and '
\* (unless it is the first) and the discipline label before it.
GroupedItem(courses, i) ==
  IF i > 1 /\ courses[i].discipline = courses[i - 1].discipline
  THEN courses[i].catalog_number
  ELSE (IF i > 1 THEN <<" ", "a", "n", "d", " ">> ELSE <<>>)
         \o courses[i].discipline \o <<"-">> \o courses[i].catalog_number

RECURSIVE GroupedFrom(_, _)
GroupedFrom(courses, i) ==
  IF i > Len(courses) THEN <<>>
  ELSE GroupedItem(courses, i) \o GroupedFrom(courses, i + 1)

\* C23: the receiving clause of the description has one discipline label for
\* each run of consecutive receiving courses of the same discipline, with
\* the catalog numbers of the run concatenated under it, and ' and '
\* between the runs.
C23_ReceivingGroupedByDiscipline ==
  (RuleCalled /\ res.raised = "none") =>
    Contains(res.text, <<" ", "a", "s", " ">> \o GroupedFrom(arg.destination_courses, 1) \o <<" ", "(">>)

\* The courses of the sending list with the grade pair key, in catalog-number
\* order; courses with equal cat_num stay in the order of the list.
SendingGroup(courses, key) ==
  sort_by_cat_num(SelectSeq(courses, LAMBDA c : <<c.min_gpa, c.max_gpa>> = key))

\* The grade pairs of the sending courses.
SendingPairs(courses) == { <<courses[i].min_gpa, courses[i].max_gpa>> : i \in 1..Len(courses) }

\* The position at which pat first occurs in s, 0 if it does not occur.
FirstAt(s, pat) ==
  IF Contains(s, pat)
  THEN CHOOSE i \in 1..(Len(s) + 1) : MatchAt(s, pat, i) /\ \A j \in 1..(i - 1) : ~MatchAt(s, pat, j)
  ELSE 0

\* The sending part of a description: what stands before ' at ' and the
\* name of the sending institution.
SendingPart(text) == SubSeq(text, 1, FirstAt(text, <<" ", "a", "t", " ">>) - 1)

\* The words that open the clause of a grade pair in a description.
ClauseOpening(key) ==
  LET grade_text == build_grade(key[1], key[2]).text
  IN  IF grade_text = <<"P", "a", "s", "s">> THEN <<"P", "a", "s", "s", "i", "n", "g", " ", "g", "r", "a", "d", "e", " ", "i", "n">> ELSE grade_text \o <<" ", "i", "n", " ">>

\* The clauses of a set of grade pairs one after the other, in ascending
\* order of the pair: each is its opening, a blank, and the labels of the
\* courses of the pair in ascending cat_num order joined with 'and'.
RECURSIVE ClausesAsSpecified(_, _)
ClausesAsSpecified(pairs, courses) ==
  IF pairs = {} THEN <<>>
  ELSE LET least == CHOOSE k \in pairs :
                      \A o \in pairs \ {k} : k[1] < o[1] \/ (k[1] = o[1] /\ k[2] < o[2])
       IN  ClauseOpening(least) \o <<" ">>
             \o JoinAsSpecified(course_labels(SendingGroup(courses, least)), <<"a", "n", "d">>)
             \o ClausesAsSpecified(pairs \ {least}, courses)

\* C24: in a description the sending part is one clause for every grade
\* pair of the sending courses and nothing else, the clauses in ascending
\* order of the pair; a clause lists the labels of exactly the courses with
\* its pair in ascending cat_num order joined with 'and', so that the label
\* of every sending course stands in the sending part exactly once; the
\* sending credit sums are the sums over all sending courses.
C24_SendingGroupedByGrade ==
  (RuleCalled /\ res.raised = "none") =>
    LET sc == arg.source_courses
        part == SendingPart(res.text)
    IN  /\ part = ClausesAsSpecified(SendingPairs(sc), sc)
        /\ \A i \in 1..Len(sc) :
             Cardinality({ p \in 1..Len(part) : MatchAt(part, course_labels(sc)[i], p) }) = 1
        /\ res.min_source_credits = SendingMin(sc)
        /\ res.max_source_credits = SendingMax(sc)

\* Two sending courses with one grade pair, listed out of catalog-number
\* order, are described in one clause in catalog-number order.
C24_Witness ==
  /\ RuleCalled
  /\ res.raised = "none"
  /\ Len(arg.source_courses) = 2
  /\ Cardinality(SendingPairs(arg.source_courses)) = 1
  /\ arg.source_courses[1].cat_num > arg.source_courses[2].cat_num
  /\ Contains(res.text, <<"P", "H", "Y", " ", "1", " ", "a", "n", "d", " ", "M", "A", "T", " ", "2", " ", "a", "t", " ">>)

-----------------------------------------------------------------------------
(* Further claims about _grade, checked under SpecGrade *)

\* The twelve standard grade points and the three exact ties, in tenths.
StandardPoints == {7, 10, 13, 17, 20, 23, 27, 30, 33, 37, 40, 43}

TiePoints == {15, 25, 35}

\* The letter the grading scale gives to a standard point or a tie.
ScaleLetter(g) ==
  CASE g = 7 -> <<"D", "-">> [] g = 10 -> <<"D">> [] g = 13 -> <<"D", "+">>
    [] g = 17 -> <<"C", "-">> [] g = 20 -> <<"C">> [] g = 23 -> <<"C", "+">>
    [] g = 27 -> <<"B", "-">> [] g = 30 -> <<"B">> [] g = 33 -> <<"B", "+">>
    [] g = 37 -> <<"A", "-">> [] g = 40 -> <<"A">> [] g = 43 -> <<"A", "+">>
    [] g = 15 -> <<"D", "+">> [] g = 25 -> <<"B", "-">> [] g = 35 -> <<"B", "+">>

\* The letter that ends the text of a result: what follows its last blank.
LastWord(text) == SliceFrom(text, RFind(text, " ") + 1)

\* C25: a standard grade point, or a tie at a half, that _grade looks up is
\* given the letter of the grading scale: the lower bound of an 'or above'
\* phrase, the upper bound of a 'between' or 'below' phrase.
C25_LetterLookup ==
  (GradeCalled /\ res.raised = "none") =>
    /\ (res.rule = 2 /\ res.min_gpa \in StandardPoints \cup TiePoints)
         => res.text = ScaleLetter(res.min_gpa) \o <<" ", "o", "r", " ", "a", "b", "o", "v", "e">>
    /\ (res.rule \in {3, 4} /\ res.max_gpa \in StandardPoints \cup TiePoints)
         => LastWord(res.text) = ScaleLetter(res.max_gpa)
    /\ (res.rule = 3 /\ res.min_gpa \in StandardPoints \cup TiePoints)
         => Contains(res.text, <<" ">> \o ScaleLetter(res.min_gpa) \o <<" ", "a", "n", "d", " ">>)

\* A tie is looked up as the lower bound and another as the upper bound.
C25_Witness ==
  /\ pc = "query._grade"
  /\ arg.min_gpa = 15
  /\ arg.max_gpa = 25
  /\ res.raised = "none"
  /\ res.text = <<"b", "e", "t", "w", "e", "e", "n", " ", "D", "+", " ", "a", "n", "d", " ", "B", "-">>

\* C27: a call with min_gpa <= max_gpa ends in one of the first four
\* classification rules, never in the fallback, and in the first rule exactly
\* when the given min_gpa is below 1.0 and the given max_gpa is above 3.7.
C27_FallbackUnreachable ==
  (GradeCalled /\ arg.min_gpa <= arg.max_gpa) =>
    /\ res.rule \in 1..4
    /\ res.rule = 1 <=> (arg.min_gpa < 10 /\ arg.max_gpa > 37)

\* A minimum below 1.0 with a maximum of exactly 3.7 is classified by the
\* second rule.
C27_Witness ==
  /\ pc = "build._grade"
  /\ arg.min_gpa = 5
  /\ arg.max_gpa = 37
  /\ res.raised = "none"
  /\ res.rule = 2
  /\ res.text = <<"D", "-", " ", "o", "r", " ", "a", "b", "o", "v", "e">>

\* C28: after the normalization of a pair with min_gpa <= max_gpa the two
\* values still satisfy min_gpa <= max_gpa, so the upper letter of a
\* 'between' or 'below' phrase is not below the minimum passing letter.
C28_NormalizationKeepsOrder ==
  (GradeCalled /\ arg.min_gpa <= arg.max_gpa) =>
    /\ res.min_gpa <= res.max_gpa
    /\ (res.raised = "none" /\ res.rule \in {3, 4})
         => LetterIndex(res.max_gpa) >= LetterIndex(res.min_gpa)

\* The result of the other copy of _grade on the same input.
QueryResult == query_grade(arg.min_gpa, arg.max_gpa)

BuildResult == build_grade(arg.min_gpa, arg.max_gpa)

\* C29: on every input the two copies of _grade both raise the same
\* exception or both return from the same rule with the same letters; the
\* texts differ only in the capital of 'Between' and 'Below' and in the
\* passing phrase, and each copy has one passing phrase.
C29_CopiesEquivalent ==
  GradeCalled =>
    /\ res = (IF pc = "query._grade" THEN QueryResult ELSE BuildResult)
    /\ QueryResult.raised = BuildResult.raised
    /\ QueryResult.rule = BuildResult.rule
    /\ QueryResult.min_gpa = BuildResult.min_gpa
    /\ QueryResult.max_gpa = BuildResult.max_gpa
    /\ (QueryResult.raised = "none" /\ QueryResult.rule = 2)
         => QueryResult.text = BuildResult.text
    /\ (QueryResult.raised = "none" /\ QueryResult.rule \in {3, 4})
         => /\ QueryResult.text # BuildResult.text
            /\ QueryResult.text = <<LowerChar(BuildResult.text[1])>> \o Tail(BuildResult.text)
    /\ (QueryResult.raised = "none" /\ QueryResult.rule \in {1, 5})
         => /\ QueryResult.text = query_classify(7, 40).text
            /\ BuildResult.text = build_classify(7, 40).text

\* The copy of build_rule_descriptions.py returns 'Between C and B' where the
\* copy of query.py returns 'between C and B'.
C29_Witness ==
  /\ pc = "build._grade"
  /\ arg.min_gpa = 20
  /\ arg.max_gpa = 30
  /\ res.text = <<"B", "e", "t", "w", "e", "e", "n", " ", "C", " ", "a", "n", "d", " ", "B">>
  /\ QueryResult.text = <<"b", "e", "t", "w", "e", "e", "n", " ", "C", " ", "a", "n", "d", " ", "B">>

-----------------------------------------------------------------------------
(* The scan for the latest query file: count_transfers_raw.py lines 27-38  *)
(* and its copy in transfer_statistics.py lines 301-314, which follows the *)
(* exit() of line 298.  A file is its position in the order in which glob  *)
(* yields it; arg.mtimes[i] is the st_mtime of file i.  mem.latest_query   *)
(* is 0 for None, mem.latest_timestamp and mem.this_timestamp are 0 while  *)
(* the name is unbound (modification times are positive), mem.next is the  *)
(* file the loop takes next.                                               *)

MaxFiles == 3

MaxTime == 3

ScanInputs == UNION { [1..n -> 1..MaxTime] : n \in 0..MaxFiles }

ScanStart == [next |-> 1, latest_query |-> 0, latest_timestamp |-> 0, this_timestamp |-> 0]

ScanRaise(exc) == [raised |-> exc]

ScanReturn(latest_query) == [raised |-> "none", name |-> latest_query]

InitScan ==
  /\ pc \in {"count_transfers_raw.scan", "transfer_statistics.scan"}
  /\ arg \in [mtimes : ScanInputs]
  /\ res = NoResult
  /\ mem = ScanStart

\* The first file seen: lines 30-32 (304-306).
first_file(m, mtime) ==
  [m EXCEPT !.latest_query = m.next, !.latest_timestamp = mtime, !.next = m.next + 1]

\* transfer_statistics.py lines 307-311: a later file.
ts_later_file(m, mtime) ==
  IF mtime > m.latest_timestamp
  THEN [m EXCEPT !.this_timestamp = mtime, !.latest_query = m.next,
                 !.latest_timestamp = mtime, !.next = m.next + 1]
  ELSE [m EXCEPT !.this_timestamp = mtime, !.next = m.next + 1]

\* count_transfers_raw.py lines 33-37: a later file.  Line 37 reads the name
\* this_timestanp, which is bound nowhere: the assignment of line 36 has
\* taken place when NameError is raised.
raw_later_file(m, mtime) ==
  IF mtime > m.latest_timestamp
  THEN [m EXCEPT !.this_timestamp = mtime, !.latest_query = m.next]
  ELSE [m EXCEPT !.this_timestamp = mtime, !.next = m.next + 1]

\* One pass of the loop of count_transfers_raw.py.
RawScanStep ==
  /\ pc = "count_transfers_raw.scan"
  /\ mem.next <= Len(arg.mtimes)
  /\ LET mtime == arg.mtimes[mem.next]
     IN  IF mem.latest_query = 0
         THEN /\ mem' = first_file(mem, mtime)
              /\ UNCHANGED <<pc, res>>
         ELSE /\ mem' = raw_later_file(mem, mtime)
              /\ IF mtime > mem.latest_timestamp
                 THEN pc' = "raised" /\ res' = ScanRaise("NameError")
                 ELSE UNCHANGED <<pc, res>>
  /\ UNCHANGED arg

\* One pass of the loop of transfer_statistics.py.
TsScanStep ==
  /\ pc = "transfer_statistics.scan"
  /\ mem.next <= Len(arg.mtimes)
  /\ mem' = (IF mem.latest_query = 0
             THEN first_file(mem, arg.mtimes[mem.next])
             ELSE ts_later_file(mem, arg.mtimes[mem.next]))
  /\ UNCHANGED <<pc, arg, res>>

\* After the loop both programs read latest_query.name (lines 38 and 313),
\* which None does not have.
ScanEnd ==
  /\ pc \in {"count_transfers_raw.scan", "transfer_statistics.scan"}
  /\ mem.next > Len(arg.mtimes)
  /\ IF mem.latest_query = 0
     THEN pc' = "raised" /\ res' = ScanRaise("AttributeError")
     ELSE pc' = "scanned" /\ res' = ScanReturn(mem.latest_query)
  /\ UNCHANGED <<arg, mem>>

NextScan == RawScanStep \/ TsScanStep \/ ScanEnd

SpecScan == InitScan /\ [][NextScan]_vars

\* The files the loop has taken, and the largest modification time of them.
FilesSeen == 1..(IF pc = "raised" /\ res.raised = "NameError" THEN mem.next ELSE mem.next - 1)

MaxSeen == CHOOSE t \in { arg.mtimes[i] : i \in FilesSeen } : \A i \in FilesSeen : arg.mtimes[i] <= t

\* C26: when there is at least one file, the scan raises nothing, after
\* every step latest_timestamp is the largest modification time of the files
\* taken so far and latest_query is a file with that modification time, and
\* the scan ends with latest_query a file of the largest modification time
\* of all.
C26_ScanFindsLatest ==
  Len(arg.mtimes) > 0 =>
    /\ res.raised \in {"pending", "none"}
    /\ FilesSeen # {} =>
         /\ mem.latest_timestamp = MaxSeen
         /\ mem.latest_query \in FilesSeen
         /\ arg.mtimes[mem.latest_query] = MaxSeen
    /\ pc = "scanned" =>
         /\ FilesSeen = 1..Len(arg.mtimes)
         /\ res.name = mem.latest_query

-----------------------------------------------------------------------------
(* count_transfers_raw.py lines 46-65: the loop over the lines of the query *)
(* file after its header line.  arg is the sequence of data lines read so   *)
(* far, mem.stats the defaultdict stats as a function on its keys.  A line  *)
(* is the fields the header names, with n_fields the number of its values.  *)

MaxRows == 3

\* The columns of the header line that the loop reads.
NumCols == 5

stats_factory ==
  [student_ids |-> {}, src_institution |-> <<"u", "n", "k", "n", "o", "w", "n">>,
   total_transfers |-> 0, distinct_transfers |-> 0]

\* f'{s:06}' for a str s: the text is left-aligned and filled with '0' on
\* the right up to six characters.
format_06(s) == s \o [i \in 1..(IF Len(s) < 6 THEN 6 - Len(s) ELSE 0) |-> "0"]

\* key = (course, dst) of a data row.
stats_key(row) ==
  << format_06(row.src_course_id) \o <<":">> \o row.src_offer_nbr,
     SliceTo(row.dst_institution, 3) >>

\* stats[key] as the defaultdict gives it.
stats_get(stats, key) == IF key \in DOMAIN stats THEN stats[key] ELSE stats_factory

\* Mutant: every row counts as a distinct transfer.
process_row_counts_every_row(stats, row) ==
  LET key == stats_key(row)
      old == stats_get(stats, key)
  IN  [k \in DOMAIN stats \cup {key} |->
         IF k = key
         THEN [student_ids |-> old.student_ids \cup {row.student_id},
               src_institution |-> SliceTo(row.src_institution, 3),
               total_transfers |-> old.total_transfers + 1,
               distinct_transfers |-> old.distinct_transfers + 1]
         ELSE stats[k]]

\* Lines 56-65: what a data row does to stats.
process_row(stats, row) ==
  LET key == stats_key(row)
      old == stats_get(stats, key)
  IN  [k \in DOMAIN stats \cup {key} |->
         IF k = key
         THEN [student_ids |-> old.student_ids \cup {row.student_id},
               src_institution |-> SliceTo(row.src_institution, 3),
               total_transfers |-> old.total_transfers + 1,
               distinct_transfers |-> IF row.student_id \in old.student_ids
                                      THEN old.distinct_transfers
                                      ELSE old.distinct_transfers + 1]
         ELSE stats[k]]

DataRows ==
  [src_course_id : {<<"1", "2">>, <<"1", "2", "0">>, <<"7">>},
   src_offer_nbr : {<<"1">>},
   src_institution : {<<"B", "M", "C", "0", "1">>},
   dst_institution : {<<"Q", "N", "S", "0", "1">>, <<"Q", "C", "C", "0", "1">>},
   student_id : {"s1", "s2"},
   n_fields : {NumCols}]

\* A line with a value missing.
ShortRow ==
  [src_course_id |-> <<"7">>, src_offer_nbr |-> <<"1">>, src_institution |-> <<"B", "M", "C", "0", "1">>,
   dst_institution |-> <<"Q", "N", "S", "0", "1">>, student_id |-> "s1", n_fields |-> NumCols - 1]

InitCount ==
  /\ pc = "count_transfers_raw.rows"
  /\ arg = <<>>
  /\ res = NoResult
  /\ mem = [stats |-> <<>>]

\* One pass of the loop over csv_reader after line 1: Row._make raises
\* TypeError for a line that has not one value for each column.
ReadRow ==
  /\ pc = "count_transfers_raw.rows"
  /\ Len(arg) < MaxRows
  /\ \E row \in DataRows \cup {ShortRow} :
       /\ arg' = Append(arg, row)
       /\ IF row.n_fields # NumCols
          THEN pc' = "raised" /\ res' = [raised |-> "TypeError"] /\ UNCHANGED mem
          ELSE mem' = [stats |-> process_row(mem.stats, row)] /\ UNCHANGED <<pc, res>>

\* The reader is exhausted.
EndOfFile ==
  /\ pc = "count_transfers_raw.rows"
  /\ pc' = "counted"
  /\ res' = [raised |-> "none"]
  /\ UNCHANGED <<arg, mem>>

NextCount == ReadRow \/ EndOfFile

SpecCount == InitCount /\ [][NextCount]_vars

\* The data rows that were processed, and the positions of those of a key.
RowsSeen == SelectSeq(arg, LAMBDA row : row.n_fields = NumCols)

RowsOfKey(key) == { i \in 1..Len(RowsSeen) : stats_key(RowsSeen[i]) = key }

KeysSeen == { stats_key(RowsSeen[i]) : i \in 1..Len(RowsSeen) }

\* C30 in a state: the keys of stats are the keys of the rows seen, and for
\* each of them student_ids is the set of the students of its rows,
\* distinct_transfers the size of that set and total_transfers the number of
\* its rows.
CountersConsistent ==
  /\ DOMAIN mem.stats = KeysSeen
  /\ \A key \in KeysSeen :
       /\ mem.stats[key].student_ids = { RowsSeen[i].student_id : i \in RowsOfKey(key) }
       /\ mem.stats[key].distinct_transfers = Cardinality(mem.stats[key].student_ids)
       /\ mem.stats[key].total_transfers = Cardinality(RowsOfKey(key))
       /\ mem.stats[key].distinct_transfers <= mem.stats[key].total_transfers

\* C30 in a step: a row leaves the entry of every key but its own as it was.
OtherKeysUnchanged ==
  (Len(arg') = Len(arg) + 1) =>
    \A key \in DOMAIN mem.stats :
      key # stats_key(arg'[Len(arg')]) =>
        key \in DOMAIN mem'.stats /\ mem'.stats[key] = mem.stats[key]

\* C30: after any sequence of data rows, for every (course, destination)
\* key distinct_transfers is the number of elements of student_ids,
\* total_transfers is the number of rows seen for the key, and
\* distinct_transfers <= total_transfers; a row for one key leaves the
\* counters and the student set of every other key unchanged.
C30_CountersConsistent == []CountersConsistent /\ [][OtherKeysUnchanged]_vars

\* One key has seen the same student twice, another key one row: course ids
\* '12' and '120' are one key.
C30_Witness ==
  /\ pc = "counted"
  /\ Len(arg) = 3
  /\ Cardinality(DOMAIN mem.stats) = 2
  /\ \E key \in DOMAIN mem.stats :
       /\ mem.stats[key].total_transfers = 2
       /\ mem.stats[key].distinct_transfers = 1
  /\ arg[1].src_course_id # arg[2].src_course_id
  /\ stats_key(arg[1]) = stats_key(arg[2])

====
